---- MODULE Spec2Model ----
(***************************************************************************)
(* Model of the stream-resolution addon (src/stremio.js, second variant,   *)
(* lines 266-987), its ID resolver, and the HLS/TS relay front end         *)
(* (src/m3u8proxy/src/lib/getHandler.js).                                  *)
(*                                                                         *)
(* Text (URLs, query parameters, quality labels, provider names) is a      *)
(* sequence of one-character strings, so that substring tests, percent     *)
(* encoding and decoding are computed character by character.              *)
(***************************************************************************)
EXTENDS Integers, Sequences, FiniteSets, TLC

(***************************************************************************)
(* Text helpers                                                            *)
(***************************************************************************)

\* JS undefined / null where a text is expected: a value no text equals
\* (a text holds one-character strings only). A field a JS object lacks is
\* a field the record lacks.
Undefined == <<"undefined">>
Null == <<"null">>

\* obj.fld, for a text-valued field
Field(obj, fld) == IF fld \in DOMAIN obj THEN obj[fld] ELSE Undefined

UpperCase == {"A","B","C","D","E","F","G","H","I","J","K","L","M",
              "N","O","P","Q","R","S","T","U","V","W","X","Y","Z"}

LowerOf == [c \in UpperCase |->
    CASE c = "A" -> "a" [] c = "B" -> "b" [] c = "C" -> "c" [] c = "D" -> "d"
      [] c = "E" -> "e" [] c = "F" -> "f" [] c = "G" -> "g" [] c = "H" -> "h"
      [] c = "I" -> "i" [] c = "J" -> "j" [] c = "K" -> "k" [] c = "L" -> "l"
      [] c = "M" -> "m" [] c = "N" -> "n" [] c = "O" -> "o" [] c = "P" -> "p"
      [] c = "Q" -> "q" [] c = "R" -> "r" [] c = "S" -> "s" [] c = "T" -> "t"
      [] c = "U" -> "u" [] c = "V" -> "v" [] c = "W" -> "w" [] c = "X" -> "x"
      [] c = "Y" -> "y" [] c = "Z" -> "z"]

\* String.prototype.toLowerCase, and the /i flag of the quality patterns.
ToLower(s) == [i \in 1..Len(s) |-> IF s[i] \in UpperCase THEN LowerOf[s[i]] ELSE s[i]]

\* String.prototype.includes / an unanchored literal pattern.
Includes(s, sub) ==
    \E i \in 1..(Len(s) - Len(sub) + 1) : SubSeq(s, i, i + Len(sub) - 1) = sub

IncludesAny(s, subs) == \E sub \in subs : Includes(s, sub)

\* The concatenation of a sequence of texts
RECURSIVE Flatten(_)
Flatten(ss) ==
    IF ss = <<>> THEN <<>>
    ELSE IF Len(ss) = 1 THEN ss[1]
    ELSE LET h == Len(ss) \div 2
         IN  Flatten(SubSeq(ss, 1, h)) \o Flatten(SubSeq(ss, h + 1, Len(ss)))

(***************************************************************************)
(* Percent encoding (encodeURIComponent / decodeURIComponent)              *)
(***************************************************************************)

Digits == {"0","1","2","3","4","5","6","7","8","9"}
LowerCase == {LowerOf[c] : c \in UpperCase}
HexDigits == Digits \cup {"A","B","C","D","E","F","a","b","c","d","e","f"}

\* The characters encodeURIComponent leaves as they are.
Unreserved == UpperCase \cup LowerCase \cup Digits \cup
              {"-", "_", ".", "!", "~", "*", "'", "(", ")"}

\* Escapes of the other characters that occur in the modelled texts
\* (ASCII code in upper-case hex, as encodeURIComponent writes it).
PctChars == {"/", ":", "?", "=", "&", "%", "{", "}", "\"", ",", "$", "#", " ", "+", "[", "]", "\\"}

PctCode == [c \in PctChars |->
    CASE c = "/" -> <<"2","F">> [] c = ":" -> <<"3","A">> [] c = "?" -> <<"3","F">>
      [] c = "=" -> <<"3","D">> [] c = "&" -> <<"2","6">> [] c = "%" -> <<"2","5">>
      [] c = "{" -> <<"7","B">> [] c = "}" -> <<"7","D">> [] c = "\"" -> <<"2","2">>
      [] c = "," -> <<"2","C">> [] c = "$" -> <<"2","4">> [] c = "#" -> <<"2","3">>
      [] c = " " -> <<"2","0">> [] c = "+" -> <<"2","B">> [] c = "[" -> <<"5","B">>
      [] c = "]" -> <<"5","D">> [] c = "\\" -> <<"5","C">>]

EncodeChar(c) == IF c \in Unreserved THEN <<c>> ELSE <<"%">> \o PctCode[c]

\* encodeURIComponent(s)
EncodeURIComponent(s) == Flatten([i \in 1..Len(s) |-> EncodeChar(s[i])])

\* The character an escape %h1h2 stands for (hex digits of either case), as
\* a text; <<>> when the escape is none of the modelled ones.
PctDecode(h1, h2) ==
    LET hit == {c \in PctChars : ToLower(PctCode[c]) = ToLower(<<h1, h2>>)}
    IN  IF hit = {} THEN <<>> ELSE <<CHOOSE c \in hit : TRUE>>

\* Whether an escape starts at position i of s
EscapeAt(s, i) ==
    /\ i >= 1 /\ i + 2 <= Len(s)
    /\ s[i] = "%" /\ s[i + 1] \in HexDigits /\ s[i + 2] \in HexDigits
    /\ PctDecode(s[i + 1], s[i + 2]) # <<>>

\* s with each escape replaced by its character; a hex digit is no '%', so
\* the escapes of s do not overlap.
Unescape(s) ==
    Flatten([i \in 1..Len(s) |->
        IF EscapeAt(s, i) THEN PctDecode(s[i + 1], s[i + 2])
        ELSE IF EscapeAt(s, i - 1) \/ EscapeAt(s, i - 2) THEN <<>>
        ELSE <<s[i]>>])

\* decodeURIComponent(s): [ok |-> TRUE, val |-> text], or [ok |-> FALSE] for
\* the URIError thrown on a '%' that is not followed by two hex digits.
DecodeURIComponent(s) ==
    IF \E i \in 1..Len(s) : s[i] = "%" /\ ~EscapeAt(s, i) THEN [ok |-> FALSE]
    ELSE [ok |-> TRUE, val |-> Unescape(s)]

(***************************************************************************)
(* Program constants (src/stremio.js)                                      *)
(***************************************************************************)

CACHE_MAX_AGE == 3600
CACHE_MAX_AGE_EMPTY == 60
STALE_REVALIDATE_AGE == 14400
STALE_ERROR_AGE == 604800
MAX_RETRIES == 3
RETRY_DELAY_MS == 1000

(***************************************************************************)
(* Stream Normalizer (processStreamingSource)                              *)
(***************************************************************************)

\* Environment read by the addon: DISABLE_M3U8_PROXY (src/stremio.js:278) and
\* NODE_ENV === 'production' (src/stremio.js:678).
VARIABLE env

M3U8 == <<".","m","3","u","8">>
HLS == <<"h","l","s">>
MP4 == <<"m","p","4">>
URL == <<"u","r","l">>

\* qualityPatterns, in the order of Object.entries: each label with the
\* alternatives of its case-insensitive pattern.
qualityPatterns == <<
    [label |-> <<"2","1","6","0","p">>,
     alts  |-> {<<"2","1","6","0","p">>, <<"4","k">>, <<"u","h","d">>}],
    [label |-> <<"1","0","8","0","p">>,
     alts  |-> {<<"1","0","8","0","p">>, <<"1","0","8","0">>, <<"f","h","d">>}],
    [label |-> <<"7","2","0","p">>,
     alts  |-> {<<"7","2","0","p">>, <<"7","2","0">>, <<"h","d">>}],
    [label |-> <<"4","8","0","p">>,
     alts  |-> {<<"4","8","0","p">>, <<"4","8","0">>, <<"s","d">>}],
    [label |-> <<"3","6","0","p">>,
     alts  |-> {<<"3","6","0","p">>, <<"3","6","0">>, <<"l","d">>}] >>

ADAPTIVE == <<"a","d","a","p","t","i","v","e">>
UNKNOWN == <<"u","n","k","n","o","w","n">>

\* JS truthiness of a text value: undefined, null and '' are falsy.
Truthy(x) == x # Undefined /\ x # Null /\ x # <<>>

\* String(x) as pattern.test and encodeURIComponent coerce their argument.
TextOf(x) == IF x = Undefined THEN <<"u","n","d","e","f","i","n","e","d">> ELSE x

\* file.type === 'hls' || file.file.includes('.m3u8')
IsHls(file) == Field(file, "type") = HLS \/ Includes(file.file, M3U8)

\* A loop without the break: the last label whose pattern matches the URL.
PatternQualityLastWins(url) ==
    LET hits == {k \in 1..Len(qualityPatterns) :
                    IncludesAny(ToLower(TextOf(url)), qualityPatterns[k].alts)}
    IN  IF hits = {} THEN Undefined
        ELSE qualityPatterns[CHOOSE k \in hits : \A j \in hits : k >= j].label

\* The loop over qualityPatterns: the first label whose pattern matches the URL.
PatternQualityFirstWins(url) ==
    LET hits == {k \in 1..Len(qualityPatterns) :
                    IncludesAny(ToLower(TextOf(url)), qualityPatterns[k].alts)}
    IN  IF hits = {} THEN Undefined
        ELSE qualityPatterns[CHOOSE k \in hits : \A j \in hits : k <= j].label

\* The inference without its last step
InferNoFallback(file) ==
    IF Truthy(Field(file, "quality")) THEN file.quality
    ELSE LET q == PatternQualityFirstWins(Field(file, "file"))
         IN  IF q # Undefined THEN q
             ELSE IF IsHls(file) THEN ADAPTIVE
             ELSE Undefined

\* The quality label of a file: file.quality, or the inferred one.
InferQuality(file) ==
    IF Truthy(Field(file, "quality")) THEN file.quality
    ELSE LET q == PatternQualityFirstWins(Field(file, "file"))
         IN  IF q # Undefined THEN q
             ELSE IF IsHls(file) THEN ADAPTIVE
             ELSE UNKNOWN

\* JSON.stringify of a string: quotes, with '"' and '\' escaped.
JsonString(s) ==
    <<"\"">> \o Flatten([i \in 1..Len(s) |->
        IF s[i] \in {"\"", "\\"} THEN <<"\\", s[i]>> ELSE <<s[i]>>]) \o <<"\"">>

\* JSON.stringify(headers): headers is the sequence of the object's
\* [k, v] entries in insertion order.
RECURSIVE JsonMembers(_)
JsonMembers(h) ==
    IF h = <<>> THEN <<>>
    ELSE JsonString(h[1].k) \o <<":">> \o JsonString(h[1].v)
         \o (IF Len(h) > 1 THEN <<",">> ELSE <<>>) \o JsonMembers(Tail(h))

JSONStringify(h) == <<"{">> \o JsonMembers(h) \o <<"}">>

\* m3u8ProxyBaseUrl (src/stremio.js:678-681); 0.0.0.0 is getLocalIpAddress's fallback.
m3u8ProxyBaseUrl ==
    IF env.production
    THEN <<"h","t","t","p",":","/","/","1","5","0",".","2","3","0",".","1","3","3",".",
           "1","9","2",":","8","0","8","2">>
    ELSE <<"h","t","t","p",":","/","/","0",".","0",".","0",".","0",":","8","0","8","2">>

PROXY_PATH == <<"/","m","3","u","8","-","p","r","o","x","y","?","u","r","l","=">>
HEADERS_PARAM == <<"&","h","e","a","d","e","r","s","=">>
TWO_EMBED == <<"2","e","m","b","e","d">>

\* A rewrite test that looks at the toggle alone.
RewrittenAlways(file, provider) == ~env.disableProxy

\* Whether the file's URL is routed through the relay.
Rewritten(file, provider) ==
    ~env.disableProxy /\ IsHls(file) /\ provider # TWO_EMBED

\* streamUrl of a file
StreamUrl(file, provider, headers) ==
    IF Rewritten(file, provider)
    THEN m3u8ProxyBaseUrl \o PROXY_PATH \o EncodeURIComponent(TextOf(Field(file, "file")))
         \o (IF headers.has
             THEN HEADERS_PARAM \o EncodeURIComponent(JSONStringify(headers.map))
             ELSE <<>>)
    ELSE Field(file, "file")

\* file.file.includes(...) on a file without a URL raises a TypeError: in the
\* inference when it is reached, and in the rewrite test when that evaluates it.
FileThrows(file) ==
    /\ "file" \notin DOMAIN file
    /\ \/ (~Truthy(Field(file, "quality")) /\ PatternQualityFirstWins(Undefined) = Undefined
             /\ Field(file, "type") # HLS)
       \/ (~env.disableProxy /\ Field(file, "type") # HLS)

\* source.source || source
Unwrap(source) == IF "source" \in DOMAIN source THEN source.source ELSE source

\* The headers of a source: whether it has any, and the map.
HeadersOf(src) ==
    IF "headers" \in DOMAIN src THEN [has |-> TRUE, map |-> src.headers]
    ELSE [has |-> FALSE, map |-> <<>>]

\* The stream object built for one file (title and language, which no
\* later step reads, are left out).
MakeStream(file, src) ==
    [url          |-> StreamUrl(file, Field(src, "provider"), HeadersOf(src)),
     name         |-> Field(src, "provider"),
     type         |-> IF Truthy(Field(file, "type")) THEN file.type ELSE URL,
     qualityLabel |-> InferQuality(file),
     headers      |-> HeadersOf(src).map,
     subtitles    |-> IF "subtitles" \in DOMAIN src THEN src.subtitles ELSE <<>>]

\* processStreamingSource(source): [ok |-> TRUE, streams |-> ...], or
\* [ok |-> FALSE] when it throws.
processStreamingSource(source) ==
    IF "ERROR" \in DOMAIN source THEN [ok |-> TRUE, streams |-> <<>>]
    ELSE LET src == Unwrap(source)
         IN  IF "files" \notin DOMAIN src THEN [ok |-> TRUE, streams |-> <<>>]
             ELSE IF \E i \in 1..Len(src.files) : FileThrows(src.files[i])
                  THEN [ok |-> FALSE]
             ELSE [ok |-> TRUE,
                   streams |-> [i \in 1..Len(src.files) |-> MakeStream(src.files[i], src)]]

(***************************************************************************)
(* Ranker (getQualityRank, getProviderRank, the sort of allStreams)        *)
(***************************************************************************)

getQualityRank(qualityLabel) ==
    IF ~Truthy(qualityLabel) THEN 100
    ELSE LET q == ToLower(qualityLabel)
         IN  IF IncludesAny(q, {<<"2","1","6","0">>, <<"4","k">>, <<"u","h","d">>}) THEN 1
             ELSE IF IncludesAny(q, {<<"1","0","8","0">>, <<"f","h","d">>}) THEN 2
             ELSE IF IncludesAny(q, {<<"7","2","0">>, <<"h","d">>}) THEN 3
             ELSE IF Includes(q, ADAPTIVE) THEN 4
             ELSE IF IncludesAny(q, {<<"4","8","0">>, <<"s","d">>}) THEN 5
             ELSE IF IncludesAny(q, {<<"3","6","0">>, <<"l","d">>}) THEN 6
             ELSE IF Includes(q, UNKNOWN) THEN 99
             ELSE 50

XPRIME == <<"x","p","r","i","m","e",".","t","v">>
HDREZKA == <<"H","D","R","e","z","k","a">>

getProviderRank(providerName) ==
    IF ~Truthy(providerName) THEN 99
    ELSE LET name == ToLower(providerName)
         IN  IF Includes(name, XPRIME) THEN 1
             ELSE IF Includes(name, ToLower(HDREZKA)) THEN 2
             ELSE 10

\* A comparator that leaves the quality rank out
CompareProviderOnly(a, b) == getProviderRank(a.name) - getProviderRank(b.name)

\* The comparator handed to allStreams.sort: negative when a goes first.
CompareStreams(a, b) ==
    IF getProviderRank(a.name) # getProviderRank(b.name)
    THEN getProviderRank(a.name) - getProviderRank(b.name)
    ELSE getQualityRank(a.qualityLabel) - getQualityRank(b.qualityLabel)

\* An insertion that puts x in front of the elements it compares equal to
InsertBeforeEqual(sorted, x) ==
    LET before == {i \in 1..Len(sorted) : CompareStreams(sorted[i], x) >= 0}
        k == IF before = {} THEN Len(sorted) + 1
             ELSE CHOOSE i \in before : \A j \in before : i <= j
    IN  SubSeq(sorted, 1, k - 1) \o <<x>> \o SubSeq(sorted, k, Len(sorted))

\* One insertion of a stable sort: x goes behind every element that does not
\* compare greater than it.
InsertStable(sorted, x) ==
    LET after == {i \in 1..Len(sorted) : CompareStreams(sorted[i], x) > 0}
        k == IF after = {} THEN Len(sorted) + 1
             ELSE CHOOSE i \in after : \A j \in after : i <= j
    IN  SubSeq(sorted, 1, k - 1) \o <<x>> \o SubSeq(sorted, k, Len(sorted))

\* Array.prototype.sort with the comparator: a stable sort (ECMAScript 2019).
RECURSIVE SortFrom(_, _)
SortFrom(sorted, rest) ==
    IF rest = <<>> THEN sorted
    ELSE SortFrom(InsertStable(sorted, Head(rest)), Tail(rest))

SortStreams(streams) == SortFrom(<<>>, streams)

\* enrichCacheParams without the test on the length
LongCacheAlways(streams) ==
    [streams |-> streams, cacheMaxAge |-> CACHE_MAX_AGE,
     staleRevalidate |-> STALE_REVALIDATE_AGE, staleError |-> STALE_ERROR_AGE]

\* enrichCacheParams(streams)
enrichCacheParams(streams) ==
    [streams         |-> streams,
     cacheMaxAge     |-> IF Len(streams) = 0 THEN CACHE_MAX_AGE_EMPTY ELSE CACHE_MAX_AGE,
     staleRevalidate |-> STALE_REVALIDATE_AGE,
     staleError      |-> STALE_ERROR_AGE]

(***************************************************************************)
(* The stream handler (builder.defineStreamHandler callback)               *)
(***************************************************************************)

VARIABLES
    pc,          \* where the handler is suspended (the await it is waiting on)
    phase,       \* fetchWithRetry: "fetch", "backoff", then "returned" or "threw"
    args,        \* the request: [id, type]; id is args.id split at ':'
    tmdbId,      \* the TMDB id as a text of digits; Undefined, then Null or an id
    title,
    year,
    allStreams,  \* the merge buffer; sorted in place at the end
    merged,      \* allStreams as it was just before the sort
    result,      \* the object the handler resolved with
    asked,       \* the providers a request was sent to
    fr,          \* fetchWithRetry's locals attempt and lastError; the number of
                 \* fetch calls it made, the delays it waited and the errors
                 \* its attempts ended in
    rez,         \* HDRezka scrape session: how each stage ended, the search
                 \* candidates with searchAndFindMediaIdRezka's result, the
                 \* detail page, the item and translator id passed on
    failed,      \* the providers whose block ended in an error
    malformed    \* the stages whose reply had a success status and a body
                 \* that is no JSON

\* Upper bound on the number of sources in a main API reply.
MaxSources == 2

\* ---- requests ----------------------------------------------------------

IMDB == <<"t","t","0","1">>
KITSU == <<"k","i","t","s","u">>

\* args.id.match(/tt\d+/i): "tt" and a digit somewhere in the id (the
\* separator ':' is no part of a match, so the match lies in one part).
MatchesImdb(id) ==
    \E i \in 1..Len(id) : \E d \in Digits : Includes(ToLower(id[i]), <<"t", "t", d>>)

Requests == {
    [id |-> <<IMDB>>, type |-> "movie"],
    [id |-> <<KITSU>>, type |-> "movie"],
    [id |-> <<IMDB>>, type |-> "channel"],
    [id |-> <<IMDB, <<"1">>, <<"2">> >>, type |-> "series"],
    [id |-> <<IMDB, <<"0">>, <<"x">> >>, type |-> "series"],
    [id |-> <<IMDB, <<"1">> >>, type |-> "series"],
    [id |-> <<IMDB, <<>>, <<"2">> >>, type |-> "series"],
    [id |-> <<KITSU, <<"1">>, <<"2">> >>, type |-> "series"] }

\* id.split(':')[k-1]
Part(id, k) == IF k <= Len(id) THEN id[k] ELSE Undefined

\* ---- texts -------------------------------------------------------------

\* SUP2 and SUP3 stand for the characters superscript two and three.
AlNum == UpperCase \cup LowerCase \cup Digits

\* title.replace(/([a-zA-Z0-9])<sup>/g, '$1 <digit>')
ReplaceAfterAlNum(t, sup, digit) ==
    Flatten([i \in 1..Len(t) |->
        IF t[i] = sup /\ i > 1 /\ t[i - 1] \in AlNum THEN <<" ", digit>> ELSE <<t[i]>>])

\* title.replace(/<sup>/g, '<digit>')
ReplaceAll(t, sup, digit) == [i \in 1..Len(t) |-> IF t[i] = sup THEN digit ELSE t[i]]

NormalizeTitle(t) ==
    ReplaceAll(ReplaceAll(
        ReplaceAfterAlNum(ReplaceAfterAlNum(t, "SUP2", "2"), "SUP3", "3"),
        "SUP2", "2"), "SUP3", "3")

DigitValue == [c \in Digits |->
    CASE c = "0" -> 0 [] c = "1" -> 1 [] c = "2" -> 2 [] c = "3" -> 3 [] c = "4" -> 4
      [] c = "5" -> 5 [] c = "6" -> 6 [] c = "7" -> 7 [] c = "8" -> 8 [] c = "9" -> 9]

\* parseInt of a text without sign or leading blanks: the value of its
\* leading digits; nan when it has none.
RECURSIVE LeadingDigits(_, _)
LeadingDigits(s, acc) ==
    IF s = <<>> \/ Head(s) \notin Digits THEN acc
    ELSE LeadingDigits(Tail(s), 10 * acc + DigitValue[Head(s)])

ParseInt(s) ==
    IF s = Undefined \/ s = <<>> \/ Head(s) \notin Digits THEN [nan |-> TRUE, val |-> 0]
    ELSE [nan |-> FALSE, val |-> LeadingDigits(s, 0)]

\* ---- upstream replies --------------------------------------------------

\* TMDB /find replies
FindBodies == { [movie_results |-> << <<"5","5","0">> >>, tv_results |-> <<>>],
                [movie_results |-> <<>>, tv_results |-> << <<"1","3","9","9">> >>],
                [movie_results |-> <<>>] }

\* TMDB details replies (title is `title` for a movie, `name` for a series)
T_PLAIN == <<"U","p">>
T_SUP == <<"X","SUP2">>
D_1994 == <<"1","9","9","4","-","0","9">>

DetailBodies == { [title |-> T_PLAIN, date |-> D_1994],
                  [title |-> T_SUP],
                  [date |-> D_1994] }

\* Files of main API sources
L1080 == <<"1","0","8","0","p">>
L720 == <<"7","2","0","p">>
F_Mp4_1080 == [file |-> <<"/","a",".","m","p","4">>, quality |-> L1080, type |-> MP4]
F_M3u8 == [file |-> <<"/","b",".","m","3","u","8">>]
F_Hls == [file |-> <<"/","c">>, type |-> HLS]
F_NoUrl == [type |-> MP4]

VIDSRC == <<"v","i","d","s","r","c">>
EMBEDSU == <<"e","m","b","e","d","s","u">>
H_REFERER == << [k |-> <<"R">>, v |-> <<"/","r">>] >>

MainSources == {
    [provider |-> VIDSRC, files |-> <<F_M3u8, F_Mp4_1080>>, headers |-> H_REFERER],
    [provider |-> EMBEDSU, files |-> <<F_Hls>>,
     subtitles |-> << [url |-> <<"/","s">>, lang |-> <<"e","n">>] >>],
    [source |-> [provider |-> TWO_EMBED, files |-> <<F_M3u8>>]],
    [provider |-> VIDSRC, files |-> <<F_Mp4_1080, F_NoUrl>>],
    [ERROR |-> TRUE],
    [provider |-> VIDSRC] }

RECURSIVE SeqsUpTo(_, _)
SeqsUpTo(S, n) ==
    IF n = 0 THEN {<<>>}
    ELSE LET shorter == SeqsUpTo(S, n - 1)
         IN  shorter \cup {Append(s, x) : s \in {t \in shorter : Len(t) = n - 1}, x \in S}

\* A main API reply body: a JSON array of sources, or JSON that is no array.
MainBodies == [array : {TRUE}, items : SeqsUpTo(MainSources, MaxSources)]
              \cup {[array |-> FALSE, items |-> <<>>]}

\* xprime.tv items: `streams` is the object's entries <<quality, url>> in
\* order; an entry without url is one whose value is no string.
X_ONE == [streams |-> << [q |-> L1080, url |-> <<"/","x",".","m","p","4">>] >>]
X_TWO == [streams |-> << [q |-> L720, url |-> <<"/","y",".","m","p","4">>],
                         [q |-> L1080, url |-> <<"/","x",".","m","p","4">>] >>]
X_ERR == [error |-> TRUE, streams |-> << [q |-> L720, url |-> <<"/","y",".","m","p","4">>] >>]
X_BADURL == [streams |-> << [q |-> L720] >>]
X_NOSTREAMS == [subtitles |-> <<>>]

\* An xprime.tv reply body: one item, or an array of items.
XprimeBodies == { [array |-> FALSE, items |-> <<X_ERR>>],
                  [array |-> FALSE, items |-> <<X_NOSTREAMS>>],
                  [array |-> TRUE, items |-> <<X_TWO>>],
                  [array |-> TRUE, items |-> <<X_ONE, X_BADURL>>] }

\* HDRezka search candidates, as the item pattern extracts them
C_FILM94 == [id |-> <<"7">>, year |-> 1994, type |-> "movie", url |-> <<"/","f">>]
C_FILM99 == [id |-> <<"9">>, year |-> 1999, type |-> "movie", url |-> <<"/","g">>]
C_SHOW94 == [id |-> <<"8">>, year |-> 1994, type |-> "show", url |-> <<"/","s">>]
C_NOID == [id |-> <<>>, year |-> 1994, type |-> "unknown", url |-> <<"/","n">>]

SearchBodies == { <<>>, <<C_FILM99, C_FILM94>>, <<C_SHOW94, C_FILM99>>, <<C_NOID>> }

\* HDRezka detail pages: whether the page holds data-translator_id="238",
\* and whether it holds the init call for the item.
DetailPages == { [marker238 |-> TRUE, initCall |-> FALSE],
                 [marker238 |-> FALSE, initCall |-> TRUE],
                 [marker238 |-> FALSE, initCall |-> FALSE] }

\* HDRezka manifest replies: the JSON envelope; `links` are the pieces of
\* its url string that carry a [quality]url pair ("null" for a null url).
L_ULTRA == <<"1","0","8","0","p"," ","U","l","t","r","a">>
NULL_URL == <<"n","u","l","l">>
ManifestBodies == {
    [success |-> FALSE, links |-> <<>>],
    [success |-> TRUE, links |-> <<>>],
    [success |-> TRUE, links |-> << [q |-> L720, url |-> <<"/","h",".","m","p","4">>],
                                    [q |-> L_ULTRA, url |-> <<"/","u",".","m","p","4">>] >>],
    [success |-> TRUE, links |-> << [q |-> L720, url |-> NULL_URL],
                                    [q |-> L1080, url |-> <<"/","k",".","m","p","4">>] >>] }

\* ---- steps shared by the provider blocks -------------------------------

\* A merge that puts the streams that arrived later in front
ConcatFront(all, streams, origin) ==
    [i \in 1..Len(streams) |->
        [ref |-> Len(all) + i, origin |-> origin] @@ streams[i]] \o all

\* allStreams.concat(processed): `ref` is the identity of the stream object
\* and `origin` the provider block that produced it.
Concat(all, streams, origin) ==
    all \o [i \in 1..Len(streams) |->
              [ref |-> Len(all) + i, origin |-> origin] @@ streams[i]]

\* results.forEach(result => allStreams = allStreams.concat(
\* processStreamingSource(result))): the buffer afterwards, and whether a
\* source raised an exception (which ends the loop).
RECURSIVE MergeSources(_, _, _)
MergeSources(all, sources, origin) ==
    IF sources = <<>> THEN [streams |-> all, threw |-> FALSE]
    ELSE LET r == processStreamingSource(Head(sources))
         IN  IF ~r.ok THEN [streams |-> all, threw |-> TRUE]
             ELSE MergeSources(Concat(all, r.streams, origin), Tail(sources), origin)

\* processXprimeItem's test of an item
XprimeItemValid(item) == "error" \notin DOMAIN item /\ "streams" \in DOMAIN item

\* The source processXprimeItem builds from an item
XprimeSource(item) ==
    [provider  |-> XPRIME,
     files     |-> [i \in 1..Len(item.streams) |->
                      IF "url" \in DOMAIN item.streams[i]
                      THEN [file |-> item.streams[i].url, quality |-> item.streams[i].q,
                            type |-> URL]
                      ELSE [quality |-> item.streams[i].q, type |-> URL]],
     subtitles |-> IF "subtitles" \in DOMAIN item THEN item.subtitles ELSE <<>>]

XprimeSources(items) ==
    LET valid == SelectSeq(items, XprimeItemValid)
    IN  [i \in 1..Len(valid) |-> XprimeSource(valid[i])]

\* parseVideoLinksRezka: the qualities object as its entries in key order; a
\* null url is dropped, a repeated quality keeps its place and takes the
\* later url.
RECURSIVE parseVideoLinksRezka(_, _)
parseVideoLinksRezka(links, acc) ==
    IF links = <<>> THEN acc
    ELSE LET l == Head(links)
             at == {i \in 1..Len(acc) : acc[i].q = l.q}
         IN  IF l.url = NULL_URL THEN parseVideoLinksRezka(Tail(links), acc)
             ELSE IF at = {} THEN parseVideoLinksRezka(Tail(links), Append(acc, l))
             ELSE parseVideoLinksRezka(Tail(links),
                    [i \in 1..Len(acc) |-> IF i \in at THEN l ELSE acc[i]])

\* hdRezkaSource
RezkaSource(qualities) ==
    [provider  |-> HDREZKA,
     files     |-> [i \in 1..Len(qualities) |->
                      [file |-> qualities[i].url, quality |-> qualities[i].q, type |-> MP4]],
     subtitles |-> <<>>]

\* A choice that takes the first candidate of the kind, whatever its year
SelectByKindOnly(movieData, releaseYear, type) ==
    LET byType == SelectSeq(movieData, LAMBDA c : c.type = type)
    IN  IF byType # <<>> THEN <<byType[1]>>
        ELSE IF movieData # <<>> THEN <<movieData[1]>>
        ELSE <<>>

\* searchAndFindMediaIdRezka's choice among the candidates; <<>> is null.
SelectCandidate(movieData, releaseYear, type) ==
    LET byYear == IF ~releaseYear.nan /\ releaseYear.val # 0
                  THEN SelectSeq(movieData, LAMBDA c : c.year = releaseYear.val)
                  ELSE movieData
        byType == SelectSeq(byYear, LAMBDA c : c.type = type)
    IN  IF byType # <<>> THEN <<byType[1]>>
        ELSE IF movieData # <<>> THEN <<movieData[1]>>
        ELSE <<>>

\* getTranslatorIdRezka's result for a fetched page; <<>> is null. Without
\* the marker the function builds its pattern with
\* new RegExp(`sof\.tv\.${functionName}\(${itemId}, ([^,]+)`, 'i'): the
\* template literal drops the backslashes, the pattern has an unclosed
\* group, the constructor raises a SyntaxError and the catch returns null.
TRANSLATOR_238 == <<"2","3","8">>
TranslatorIdOf(page) == IF page.marker238 THEN TRANSLATOR_238 ELSE <<>>

\* ---- the handler's steps -----------------------------------------------

VARIABLES
    norm,        \* one run of processStreamingSource taken on its own
    relay,       \* one request to the relay's front end, and its response
    uproxy       \* one request to the universal proxy, and its response

handlerVars == <<pc, phase, args, tmdbId, title, year, allStreams, merged, result,
                 asked, fr, rez, failed, malformed>>

vars == <<env, handlerVars, norm, relay, uproxy>>

\* Nothing submitted to the normaliser / to the relay
NormIdle == [stage |-> "idle"]
RelayIdle == [stage |-> "idle"]
ProxyIdle == [stage |-> "idle"]

Providers == {"main", "xprime", "rezka"}
RetryStages == {"xprime", "rsearch", "rtrans", "rstream"}

\* The provider a fetchWithRetry call of a stage addresses
ProviderOf(stage) == IF stage = "xprime" THEN "xprime" ELSE "rezka"

NoResult == [pending |-> TRUE]
NoError == [attempt |-> 0, kind |-> "none"]
FrIdle == [attempt |-> 0, lastError |-> NoError, fetches |-> 0, waits |-> <<>>,
           errors |-> <<>>]
\* fetchWithRetry's state on entry: let lastError; attempt = 1
FrStart == [attempt |-> 1, lastError |-> NoError, fetches |-> 0, waits |-> <<>>,
            errors |-> <<>>]
NoPage == [marker238 |-> FALSE, initCall |-> FALSE]
NoSession == [item |-> <<>>, translatorId |-> <<>>,
              search |-> "none", candidates |-> <<>>, found |-> <<>>,
              detail |-> "none", page |-> NoPage, manifest |-> "none"]

Init ==
    /\ env \in [disableProxy : BOOLEAN, production : {TRUE}]
    /\ args \in Requests
    /\ pc = "start"
    /\ phase = "none"
    /\ tmdbId = Undefined
    /\ title = Undefined
    /\ year = Undefined
    /\ allStreams = <<>>
    /\ merged = <<>>
    /\ result = NoResult
    /\ asked = {}
    /\ fr = FrIdle
    /\ rez = NoSession
    /\ failed = {}
    /\ malformed = {}
    /\ norm = NormIdle
    /\ relay = RelayIdle
    /\ uproxy = ProxyIdle

\* A handler that goes on to the providers where it is to return
ProceedToProviders ==
    /\ pc' = "main"
    /\ phase' = "none"
    /\ UNCHANGED <<allStreams, merged, result, asked, fr, rez, failed>>

\* return enrichCacheParams([]) before any provider was asked
ReturnEmpty ==
    /\ result' = enrichCacheParams(<<>>)
    /\ pc' = "done"
    /\ phase' = "none"
    /\ UNCHANGED <<allStreams, merged, asked, fr, rez, failed>>

\* An end of the handler that returns what the last block produced alone
FinishLastOnly(streams) ==
    /\ merged' = SelectSeq(streams, LAMBDA st : st.origin = "rezka")
    /\ allStreams' = SortStreams(SelectSeq(streams, LAMBDA st : st.origin = "rezka"))
    /\ result' = enrichCacheParams(SortStreams(SelectSeq(streams, LAMBDA st : st.origin = "rezka")))
    /\ pc' = "done"
    /\ phase' = "none"
    /\ fr' = FrIdle

\* The end of the handler behind the HDRezka block: sort allStreams in place
\* and return enrichCacheParams(allStreams).
Finish(streams) ==
    /\ merged' = streams
    /\ allStreams' = SortStreams(streams)
    /\ result' = enrichCacheParams(SortStreams(streams))
    /\ pc' = "done"
    /\ phase' = "none"
    /\ fr' = FrIdle

\* Entry: the id test, and the branch on args.type up to the first await.
HandlerStart ==
    /\ pc = "start"
    /\ UNCHANGED <<env, uproxy, norm, relay, malformed, args, tmdbId, title, year>>
    /\ IF ~MatchesImdb(args.id)
       THEN /\ result' = [streams |-> <<>>]
            /\ pc' = "done"
            /\ UNCHANGED <<phase, allStreams, merged, asked, fr, rez, failed>>
       ELSE IF args.type = "movie"
                 \/ (args.type = "series" /\ Truthy(Part(args.id, 2))
                                          /\ Truthy(Part(args.id, 3)))
       THEN /\ pc' = "find"
            /\ UNCHANGED <<phase, allStreams, merged, result, asked, fr, rez, failed>>
       ELSE \* series without season or episode; or another type, for which
            \* title stays undefined
            ReturnEmpty

\* convertImdbToTmdb's result for a reply
TmdbIdOf(reply, type) ==
    IF reply.kind # "body" THEN Null
    ELSE IF type = "movie" /\ "movie_results" \in DOMAIN reply.body
              /\ Len(reply.body.movie_results) > 0
         THEN reply.body.movie_results[1]
    ELSE IF type = "series" /\ "tv_results" \in DOMAIN reply.body
              /\ Len(reply.body.tv_results) > 0
         THEN reply.body.tv_results[1]
    ELSE Null

\* What an upstream can answer to a plain fetch: a network error, a
\* non-success status, a success whose body is no JSON, or a JSON body.
Replies(bodies) ==
    {[kind |-> "net"], [kind |-> "http"], [kind |-> "badjson"]}
    \cup {[kind |-> "body", body |-> b] : b \in bodies}

\* await convertImdbToTmdb(imdbId, type) returns.
ConvertImdbToTmdb ==
    /\ pc = "find"
    /\ \E reply \in Replies(FindBodies) :
         /\ tmdbId' = TmdbIdOf(reply, args.type)
         /\ IF ~Truthy(tmdbId')
            THEN ReturnEmpty
            ELSE /\ pc' = "details"
                 /\ UNCHANGED <<phase, allStreams, merged, result, asked, fr, rez, failed>>
    /\ UNCHANGED <<env, uproxy, norm, relay, malformed, args, title, year>>

\* title and year after the details reply, title normalised.
TitleOf(reply) ==
    IF reply.kind = "body" /\ "title" \in DOMAIN reply.body
    THEN NormalizeTitle(reply.body.title) ELSE Undefined

YearOf(reply) ==
    IF reply.kind = "body" /\ "date" \in DOMAIN reply.body /\ Truthy(reply.body.date)
    THEN SubSeq(reply.body.date, 1, 4) ELSE Undefined

\* The TMDB details fetch settles; then the metadata test.
FetchDetails ==
    /\ pc = "details"
    /\ \E reply \in Replies(DetailBodies) :
         /\ title' = TitleOf(reply)
         /\ year' = YearOf(reply)
         /\ IF ~Truthy(title') \/ ~Truthy(year') \/ ~Truthy(tmdbId)
            THEN ReturnEmpty
            ELSE /\ pc' = "main"
                 /\ UNCHANGED <<phase, allStreams, merged, result, asked, fr, rez, failed>>
    /\ UNCHANGED <<env, uproxy, norm, relay, malformed, args, tmdbId>>

\* The main API block: fetch(apiUrl), then the merge of its sources; the
\* block's catch swallows any exception. Then the xprime.tv block starts its
\* fetchWithRetry.
MainApi ==
    /\ pc = "main"
    /\ \E reply \in Replies(MainBodies) :
         LET m == IF reply.kind = "body" /\ reply.body.array
                  THEN MergeSources(allStreams, reply.body.items, "main")
                  ELSE [streams |-> allStreams, threw |-> FALSE]
         IN  /\ allStreams' = m.streams
             /\ failed' = IF reply.kind # "body" \/ m.threw
                          THEN failed \cup {"main"} ELSE failed
             /\ malformed' = IF reply.kind = "badjson"
                             THEN malformed \cup {"main"} ELSE malformed
    /\ asked' = asked \cup {"main"}
    /\ pc' = "xprime"
    /\ phase' = "fetch"
    /\ fr' = FrStart
    /\ UNCHANGED <<env, uproxy, norm, relay, args, tmdbId, title, year, merged, result, rez>>

\* ---- fetchWithRetry ------------------------------------------------------

AttemptOutcomes == {"ok", "http", "net"}

\* The same delay before every attempt
BackoffConstant(k) == RETRY_DELAY_MS

\* The delay before the attempt that follows failed attempt k
Backoff(k) == RETRY_DELAY_MS * 2 ^ (k - 1)

\* A catch that keeps the first error it saw
KeepFirstError(previous, attempt, outcome) ==
    IF previous.kind = "none" THEN [attempt |-> attempt, kind |-> outcome] ELSE previous

\* lastError = error, in the catch of attempt number attempt
CaughtError(previous, attempt, outcome) == [attempt |-> attempt, kind |-> outcome]

\* A loop without its bound
RetryAlways(k, maxRetries) == TRUE

\* Whether the failed attempt k is followed by another one
MoreAttempts(k, maxRetries) == k < maxRetries

\* One pass of the loop body: await fetch(url, options) settles. A response
\* that is not ok is thrown and lands in the same catch as a network error.
FetchAttempt ==
    /\ pc \in RetryStages
    /\ phase = "fetch"
    /\ \E outcome \in AttemptOutcomes :
         /\ asked' = asked \cup {ProviderOf(pc)}
         /\ IF outcome = "ok"
            THEN /\ fr' = [fr EXCEPT !.fetches = @ + 1]
                 /\ phase' = "returned"
            ELSE /\ fr' = [fr EXCEPT
                             !.fetches = @ + 1,
                             !.lastError = CaughtError(@, fr.attempt, outcome),
                             !.errors = Append(@, outcome),
                             !.waits = IF MoreAttempts(fr.attempt, MAX_RETRIES)
                                       THEN Append(@, Backoff(fr.attempt)) ELSE @]
                 /\ phase' = IF MoreAttempts(fr.attempt, MAX_RETRIES)
                             THEN "backoff" ELSE "threw"
    /\ UNCHANGED <<env, uproxy, norm, relay, malformed, pc, args, tmdbId, title, year, allStreams, merged, result,
                   rez, failed>>

\* The backoff timer fires: attempt++ and the next pass.
BackoffElapsed ==
    /\ pc \in RetryStages
    /\ phase = "backoff"
    /\ fr' = [fr EXCEPT !.attempt = @ + 1]
    /\ phase' = "fetch"
    /\ UNCHANGED <<env, uproxy, norm, relay, malformed, pc, args, tmdbId, title, year, allStreams, merged, result,
                   asked, rez, failed>>

\* ---- xprime.tv block ---------------------------------------------------

\* A return behind the xprime.tv block
SkipRezka ==
    /\ pc' = "done"
    /\ phase' = "none"
    /\ fr' = FrIdle

\* A stage that is to be repeated instead of left
RetryXprime ==
    /\ pc' = "xprime"
    /\ phase' = "fetch"
    /\ fr' = FrStart

\* The HDRezka block starts: searchAndFindMediaIdRezka calls fetchWithRetry.
StartRezka ==
    /\ pc' = "rsearch"
    /\ phase' = "fetch"
    /\ fr' = FrStart

\* fetchWithRetry returned a response: xprimeResponse.json(), then the items.
XprimeBody ==
    /\ pc = "xprime"
    /\ phase = "returned"
    /\ \E reply \in {[kind |-> "badjson"]}
                    \cup {[kind |-> "body", body |-> b] : b \in XprimeBodies} :
         LET m == IF reply.kind = "body"
                  THEN MergeSources(allStreams, XprimeSources(reply.body.items), "xprime")
                  ELSE [streams |-> allStreams, threw |-> TRUE]
         IN  /\ allStreams' = m.streams
             /\ failed' = IF m.threw THEN failed \cup {"xprime"} ELSE failed
             /\ malformed' = IF reply.kind = "badjson"
                             THEN malformed \cup {"xprime"} ELSE malformed
    /\ StartRezka
    /\ UNCHANGED <<env, uproxy, norm, relay, args, tmdbId, title, year, merged, result, asked, rez>>

\* fetchWithRetry threw: the block's catch logs the error.
XprimeFailed ==
    /\ pc = "xprime"
    /\ phase = "threw"
    /\ failed' = failed \cup {"xprime"}
    /\ StartRezka
    /\ UNCHANGED <<env, uproxy, norm, relay, malformed, args, tmdbId, title, year, allStreams, merged, result, asked, rez>>

\* ---- HDRezka block -----------------------------------------------------

\* hdRezkaMedia.type and .releaseYear
MediaType == IF args.type = "series" THEN "show" ELSE "movie"
ReleaseYear == ParseInt(year)

\* The search reply arrived: pick the candidate; with a candidate that has an
\* id, getTranslatorIdRezka starts its fetchWithRetry, else the block is over.
RezSearchBody ==
    /\ pc = "rsearch"
    /\ phase = "returned"
    /\ \E movieData \in SearchBodies :
         LET item == SelectCandidate(movieData, ReleaseYear, MediaType)
         IN  IF item # <<>> /\ Truthy(item[1].id) /\ Truthy(item[1].url)
             THEN /\ rez' = [rez EXCEPT !.search = "body", !.candidates = movieData,
                                         !.found = item, !.item = item]
                  /\ pc' = "rtrans"
                  /\ phase' = "fetch"
                  /\ fr' = FrStart
                  /\ UNCHANGED <<allStreams, merged, result>>
             ELSE /\ Finish(allStreams)
                  /\ rez' = [rez EXCEPT !.search = "body", !.candidates = movieData,
                                         !.found = item]
    /\ UNCHANGED <<env, uproxy, norm, relay, malformed, args, tmdbId, title, year, asked, failed>>

\* The detail page arrived: with a translator id getStreamRezka starts its
\* fetchWithRetry, else the block is over.
RezTransBody ==
    /\ pc = "rtrans"
    /\ phase = "returned"
    /\ \E page \in DetailPages :
         IF TranslatorIdOf(page) # <<>>
         THEN /\ rez' = [rez EXCEPT !.detail = "body", !.page = page,
                                     !.translatorId = TranslatorIdOf(page)]
              /\ pc' = "rstream"
              /\ phase' = "fetch"
              /\ fr' = FrStart
              /\ UNCHANGED <<allStreams, merged, result>>
         ELSE /\ Finish(allStreams)
              /\ rez' = [rez EXCEPT !.detail = "body", !.page = page]
    /\ UNCHANGED <<env, uproxy, norm, relay, malformed, args, tmdbId, title, year, asked, failed>>

\* The manifest reply arrived: JSON.parse, the two parsers, the source, the
\* merge; then the sort and the return.
RezStreamBody ==
    /\ pc = "rstream"
    /\ phase = "returned"
    /\ \E reply \in {[kind |-> "badjson"]}
                    \cup {[kind |-> "body", body |-> b] : b \in ManifestBodies} :
         LET qualities == IF reply.kind = "body" /\ reply.body.success
                          THEN parseVideoLinksRezka(reply.body.links, <<>>)
                          ELSE <<>>
             m == IF qualities # <<>>
                  THEN MergeSources(allStreams, <<RezkaSource(qualities)>>, "rezka")
                  ELSE [streams |-> allStreams, threw |-> FALSE]
         IN  /\ Finish(m.streams)
             /\ failed' = IF reply.kind # "body" \/ m.threw
                          THEN failed \cup {"rezka"} ELSE failed
             /\ malformed' = IF reply.kind = "badjson"
                             THEN malformed \cup {"rstream"} ELSE malformed
    /\ rez' = [rez EXCEPT !.manifest = "body"]
    /\ UNCHANGED <<env, uproxy, norm, relay, args, tmdbId, title, year, asked>>

\* fetchWithRetry threw in one of the three stages: the stage's catch
\* returns null, the later stages are skipped; then the sort and the return.
RezFailed ==
    /\ pc \in {"rsearch", "rtrans", "rstream"}
    /\ phase = "threw"
    /\ failed' = failed \cup {"rezka"}
    /\ Finish(allStreams)
    /\ rez' = IF pc = "rsearch" THEN [rez EXCEPT !.search = "failed"]
              ELSE IF pc = "rtrans" THEN [rez EXCEPT !.detail = "failed"]
              ELSE [rez EXCEPT !.manifest = "failed"]
    /\ UNCHANGED <<env, uproxy, norm, relay, malformed, args, tmdbId, title, year, asked>>

Next ==
    \/ HandlerStart
    \/ ConvertImdbToTmdb
    \/ FetchDetails
    \/ MainApi
    \/ FetchAttempt
    \/ BackoffElapsed
    \/ XprimeBody
    \/ XprimeFailed
    \/ RezSearchBody
    \/ RezTransBody
    \/ RezStreamBody
    \/ RezFailed

Spec == Init /\ [][Next]_vars

(***************************************************************************)
(* Properties of the stream handler                                        *)
(***************************************************************************)

Returned == pc = "done"

\* The handler got past the metadata test and ran the provider blocks.
RanProviders == Returned /\ "main" \in asked

\* C1: on every return path the result carries cacheMaxAge = 60 when its
\* streams list is empty and cacheMaxAge = 3600 when it holds a stream.
C1_CacheAgeOnEveryReturn ==
    Returned =>
        /\ "cacheMaxAge" \in DOMAIN result
        /\ result.cacheMaxAge = IF Len(result.streams) = 0 THEN 60 ELSE 3600

\* C2: whichever providers fail, the result holds the streams of the
\* providers that succeeded and none of a provider that failed.
C2_OnlyStreamsOfSucceedingProviders ==
    RanProviders =>
        \A i \in 1..Len(result.streams) : result.streams[i].origin \notin failed

\* C3: for every request the handler resolves with an object that has the
\* fields streams, cacheMaxAge, staleRevalidate and staleError.
C3_AlwaysAResolvedStreamSet ==
    Returned =>
        {"streams", "cacheMaxAge", "staleRevalidate", "staleError"} \subseteq DOMAIN result

SameRanks(a, b) ==
    /\ getProviderRank(a.name) = getProviderRank(b.name)
    /\ getQualityRank(a.qualityLabel) = getQualityRank(b.qualityLabel)

\* C4: two streams of the result with equal provider rank and equal quality
\* rank stand in the order they had in the merged list before sorting
\* (main API, then xprime.tv, then HDRezka, each in file order).
C4_TiesKeepMergedOrder ==
    RanProviders =>
        /\ \A k \in 1..Len(merged) : merged[k].ref = k
        /\ Len(result.streams) = Len(merged)
        /\ \A i, j \in 1..Len(result.streams) :
              (i < j /\ SameRanks(result.streams[i], result.streams[j]))
                  => result.streams[i].ref < result.streams[j].ref

\* A tie that the sort had to carry across a reordering.
C4_Witness ==
    /\ RanProviders
    /\ result.streams # merged
    /\ \E i, j \in 1..Len(result.streams) :
          /\ i < j
          /\ SameRanks(result.streams[i], result.streams[j])
          /\ result.streams[j].ref > result.streams[i].ref + 1

L2160 == <<"2","1","6","0","p">>
L4K == <<"4","K">>
L480 == <<"4","8","0","p">>
L360 == <<"3","6","0","p">>

\* The merged list of scenario A: one provider returns an unlabelled .m3u8
\* file and a 1080p mp4, the other providers nothing.
ScenarioA ==
    Concat(<<>>, processStreamingSource(
        [provider |-> VIDSRC, files |-> <<F_M3u8, F_Mp4_1080>>, headers |-> H_REFERER]).streams,
        "main")

\* C5: the result is ordered by provider rank and, among equal provider
\* ranks, by quality rank, 4K before 1080p before 720p before adaptive before
\* 480p before 360p before unknown; scenario A yields two streams, 1080p
\* then adaptive, of one provider.
C5_OrderedByProviderThenQuality ==
    /\ getQualityRank(L2160) = getQualityRank(L4K)
    /\ getQualityRank(L4K) < getQualityRank(L1080)
    /\ getQualityRank(L1080) < getQualityRank(L720)
    /\ getQualityRank(L720) < getQualityRank(ADAPTIVE)
    /\ getQualityRank(ADAPTIVE) < getQualityRank(L480)
    /\ getQualityRank(L480) < getQualityRank(L360)
    /\ getQualityRank(L360) < getQualityRank(UNKNOWN)
    /\ RanProviders =>
        /\ \A i, j \in 1..Len(result.streams) :
              i < j =>
                LET a == result.streams[i]
                    b == result.streams[j]
                IN  \/ getProviderRank(a.name) < getProviderRank(b.name)
                    \/ /\ getProviderRank(a.name) = getProviderRank(b.name)
                       /\ getQualityRank(a.qualityLabel) <= getQualityRank(b.qualityLabel)
        /\ merged = ScenarioA =>
              /\ Len(result.streams) = 2
              /\ result.streams[1].qualityLabel = L1080
              /\ result.streams[2].qualityLabel = ADAPTIVE
              /\ result.streams[1].name = result.streams[2].name

C5_Witness ==
    /\ RanProviders
    /\ merged = ScenarioA
    /\ merged[1].qualityLabel = ADAPTIVE
    /\ result.streams[1].ref = 2

\* C8: when the ID resolver reports not-found, the handler returns the empty
\* list with the short cache max-age and no provider was sent a request.
C8_NotFoundShortCircuits ==
    (Returned /\ tmdbId = Null) =>
        /\ result.streams = <<>>
        /\ result.cacheMaxAge = CACHE_MAX_AGE_EMPTY
        /\ asked = {}

C8_Witness ==
    /\ Returned
    /\ tmdbId = Null
    /\ args.type = "series"
    /\ result = enrichCacheParams(<<>>)

\* C10: fetchWithRetry makes at most maxRetries fetch calls; when it returns
\* a response, that response is the first successful one and no attempt
\* follows it; a non-success status and a network error are both a failed
\* attempt, retried while attempts remain.
C10_BoundedRetries ==
    pc \in RetryStages =>
        /\ fr.fetches <= MAX_RETRIES
        /\ fr.attempt <= MAX_RETRIES
        /\ phase = "fetch" => fr.fetches = fr.attempt - 1
        /\ phase = "returned" =>
              /\ fr.fetches = fr.attempt
              /\ fr.lastError.attempt < fr.attempt
              /\ ~ENABLED FetchAttempt
        /\ phase = "backoff" =>
              /\ fr.fetches = fr.attempt
              /\ fr.attempt < MAX_RETRIES
              /\ fr.lastError.attempt = fr.attempt
              /\ fr.lastError.kind \in {"http", "net"}
        /\ phase = "threw" =>
              /\ fr.fetches = MAX_RETRIES
              /\ fr.lastError.kind \in {"http", "net"}
        /\ (phase \in {"backoff", "fetch"} /\ fr.lastError.kind = "http") =>
              ENABLED (BackoffElapsed \/ FetchAttempt)

\* A response returned at the last attempt, after a non-success status.
C10_Witness ==
    /\ pc = "xprime"
    /\ phase = "returned"
    /\ fr.fetches = MAX_RETRIES
    /\ fr.lastError = [attempt |-> MAX_RETRIES - 1, kind |-> "http"]

(***************************************************************************)
(* processStreamingSource on its own: a source with one file that declares *)
(* no quality is normalised, normalised once more, and the stream's url is *)
(* fed back as the URL of a file.                                          *)
(***************************************************************************)

DOT_MP4 == <<".","m","p","4">>

\* File names the URLs are built from: with and without a quality token, in
\* either case, and with characters that encodeURIComponent escapes.
NormNames == { <<"h","d">>, <<"x">>, <<"1","0","8","0","p">>, <<"4","K">>, <<"s","d">>,
               <<"$","k">>, <<"7","2","0">>, <<"U","H","D">>, <<"l","d">>,
               <<"a","4","8","0">> }

NormUrls == { <<"/">> \o n \o e : n \in NormNames, e \in {M3U8, DOT_MP4} }

\* Files without a declared quality: with a URL or without one, with a
\* declared type or without one.
NormFiles ==
    LET typed(f) == {f} \cup {f @@ [type |-> t] : t \in {HLS, MP4}}
    IN  UNION { typed([file |-> u]) : u \in NormUrls } \cup typed([lang |-> <<"e","n">>])

NormSources ==
    { [provider |-> p, files |-> <<f>>] : p \in {VIDSRC, TWO_EMBED}, f \in NormFiles }
    \cup { [provider |-> p, files |-> <<f>>, headers |-> H_REFERER] :
              p \in {VIDSRC, TWO_EMBED}, f \in NormFiles }

HandlerIdle ==
    /\ pc = "idle"
    /\ phase = "none"
    /\ args = [id |-> <<>>, type |-> "none"]
    /\ tmdbId = Undefined
    /\ title = Undefined
    /\ year = Undefined
    /\ allStreams = <<>>
    /\ merged = <<>>
    /\ result = NoResult
    /\ asked = {}
    /\ fr = FrIdle
    /\ rez = NoSession
    /\ failed = {}
    /\ malformed = {}

InitNorm ==
    /\ env \in [disableProxy : BOOLEAN, production : BOOLEAN]
    /\ norm \in {[stage |-> "input", source |-> s] : s \in NormSources}
    /\ relay = RelayIdle
    /\ uproxy = ProxyIdle
    /\ HandlerIdle

\* processStreamingSource(source) runs: its streams, or the exception
Normalize ==
    /\ norm.stage = "input"
    /\ LET r == processStreamingSource(norm.source)
       IN  norm' = IF r.ok
                   THEN [stage |-> "built", source |-> norm.source, streams |-> r.streams]
                   ELSE [stage |-> "threw", source |-> norm.source]
    /\ UNCHANGED <<env, uproxy, handlerVars, relay>>

\* The same source is processed a second time.
NormalizeAgain ==
    /\ norm.stage = "built"
    /\ LET r == processStreamingSource(norm.source)
       IN  norm' = IF r.ok
                   THEN [stage |-> "repeated", source |-> norm.source,
                         streams |-> norm.streams, again |-> r.streams]
                   ELSE [stage |-> "threw", source |-> norm.source]
    /\ UNCHANGED <<env, uproxy, handlerVars, relay>>

\* The source whose one file has the stream's url as its URL and the
\* stream's type as its type
FedBack(source, stream) ==
    [files |-> <<[file |-> stream.url, type |-> stream.type]>>]
    @@ [k \in DOMAIN source \ {"files"} |-> source[k]]

\* The stream built from a file is processed as a file.
NormalizeOwnUrl ==
    /\ norm.stage = "built"
    /\ LET r == processStreamingSource(FedBack(norm.source, norm.streams[1]))
       IN  norm' = IF r.ok
                   THEN [stage |-> "fedback", source |-> norm.source,
                         streams |-> norm.streams, again |-> r.streams]
                   ELSE [stage |-> "threw", source |-> norm.source]
    /\ UNCHANGED <<env, uproxy, handlerVars, relay>>

NextNorm ==
    \/ Normalize
    \/ NormalizeAgain
    \/ NormalizeOwnUrl

SpecNorm == InitNorm /\ [][NextNorm]_vars

QualityLabels == {L2160, L1080, L720, L480, L360, ADAPTIVE, UNKNOWN}

HasUrl(source) == "file" \in DOMAIN source.files[1]

C7_ReinferenceKeepsLabel ==
    norm.stage = "fedback" =>
        norm.again[1].qualityLabel = norm.streams[1].qualityLabel

(***************************************************************************)
(* The relay's front end (src/m3u8proxy/src/lib/getHandler.js)             *)
(***************************************************************************)

\* s.split(c): the pieces of s between the occurrences of the character c
Split(s, c) ==
    LET cuts == {i \in 1..Len(s) : s[i] = c}
        \* the position of the k-th c; 0 and Len(s) + 1 bound the text
        cut(k) == IF k = 0 THEN 0
                  ELSE IF k > Cardinality(cuts) THEN Len(s) + 1
                  ELSE CHOOSE i \in cuts : Cardinality({j \in cuts : j <= i}) = k
    IN  [k \in 1..(Cardinality(cuts) + 1) |-> SubSeq(s, cut(k - 1) + 1, cut(k) - 1)]

\* s.startsWith(prefix)
StartsWith(s, prefix) == Len(s) >= Len(prefix) /\ SubSeq(s, 1, Len(prefix)) = prefix

\* The index of the first c in s, or 0
IndexOf(s, c) ==
    IF \E i \in 1..Len(s) : s[i] = c
    THEN CHOOSE i \in 1..Len(s) : s[i] = c /\ \A j \in 1..(i - 1) : s[j] # c
    ELSE 0

\* The percent-decoding URLSearchParams applies to a name or value: '+' is a
\* space, an escape is its character, a '%' that starts no escape stays.
FormDecode(s) ==
    Unescape([i \in 1..Len(s) |-> IF s[i] = "+" THEN " " ELSE s[i]])

\* new URL(req.url, base).pathname, for a req.url that is a path and a query
Pathname(url) ==
    IF IndexOf(url, "?") = 0 THEN url ELSE SubSeq(url, 1, IndexOf(url, "?") - 1)

\* new URL(req.url, base).searchParams as its [name, value] pairs in order
SearchParams(url) ==
    LET q == IF IndexOf(url, "?") = 0 THEN <<>>
             ELSE SubSeq(url, IndexOf(url, "?") + 1, Len(url))
        pieces == SelectSeq(Split(q, "&"), LAMBDA p : p # <<>>)
        pair(p) == IF IndexOf(p, "=") = 0
                   THEN [name |-> FormDecode(p), value |-> <<>>]
                   ELSE [name  |-> FormDecode(SubSeq(p, 1, IndexOf(p, "=") - 1)),
                         value |-> FormDecode(SubSeq(p, IndexOf(p, "=") + 1, Len(p)))]
    IN  [i \in 1..Len(pieces) |-> pair(pieces[i])]

\* searchParams.get(name): the first value of that name, or null
SearchParamsGet(url, name) ==
    LET hits == SelectSeq(SearchParams(url), LAMBDA p : p.name = name)
    IN  IF hits = <<>> THEN Null ELSE hits[1].value

\* getRawParamValueFromRequest(fullRequestUrl, paramName):
\* [ok |-> TRUE, val |-> text or Null], or [ok |-> FALSE] when
\* decodeURIComponent throws.
getRawParamValueFromRequest(fullRequestUrl, paramName) ==
    LET parts == Split(fullRequestUrl, "?")
        queryPart == IF Len(parts) >= 2 THEN parts[2] ELSE <<>>
        hits == SelectSeq(Split(queryPart, "&"),
                          LAMBDA p : StartsWith(p, paramName \o <<"=">>))
    IN  IF queryPart = <<>> \/ hits = <<>> THEN [ok |-> TRUE, val |-> Null]
        ELSE DecodeURIComponent(SubSeq(hits[1], Len(paramName) + 2, Len(hits[1])))

\* ---- JSON.parse --------------------------------------------------------
\* JSON texts without white space whose values are strings, unsigned
\* integers and objects of these. A parse step returns
\* [ok |-> TRUE, kind, val, rest] or [ok |-> FALSE].

JsonFail == [ok |-> FALSE]

\* The characters of a string up to its closing quote; s starts behind the
\* opening quote.
RECURSIVE JsonScanString(_, _)
JsonScanString(s, acc) ==
    IF s = <<>> THEN JsonFail
    ELSE IF Head(s) = "\"" THEN [ok |-> TRUE, kind |-> "string", val |-> acc, rest |-> Tail(s)]
    ELSE IF Head(s) = "\\"
         THEN IF Len(s) >= 2 /\ s[2] \in {"\"", "\\", "/"}
              THEN JsonScanString(SubSeq(s, 3, Len(s)), Append(acc, s[2]))
              ELSE JsonFail
    ELSE JsonScanString(Tail(s), Append(acc, Head(s)))

\* An unsigned integer: 0, or digits that do not start with 0
JsonNumber(s) ==
    LET n == IF \E i \in 1..Len(s) : s[i] \notin Digits
             THEN (CHOOSE i \in 1..Len(s) :
                      s[i] \notin Digits /\ \A j \in 1..(i - 1) : s[j] \in Digits) - 1
             ELSE Len(s)
    IN  IF n = 0 \/ (n > 1 /\ s[1] = "0") THEN JsonFail
        ELSE [ok |-> TRUE, kind |-> "number", val |-> SubSeq(s, 1, n),
              rest |-> SubSeq(s, n + 1, Len(s))]

RECURSIVE JsonValue(_)
RECURSIVE JsonMembersFrom(_, _)

\* The members of an object from the first character of a member on
JsonMembersFrom(s, acc) ==
    IF s = <<>> \/ Head(s) # "\"" THEN JsonFail
    ELSE LET key == JsonScanString(Tail(s), <<>>)
         IN  IF ~key.ok \/ key.rest = <<>> \/ Head(key.rest) # ":" THEN JsonFail
             ELSE LET v == JsonValue(Tail(key.rest))
                  IN  IF ~v.ok \/ v.rest = <<>> THEN JsonFail
                      ELSE LET all == Append(acc, [k |-> key.val, v |-> v.val, kind |-> v.kind])
                           IN  IF Head(v.rest) = "}"
                               THEN [ok |-> TRUE, kind |-> "object", val |-> all,
                                     rest |-> Tail(v.rest)]
                               ELSE IF Head(v.rest) = ","
                               THEN JsonMembersFrom(Tail(v.rest), all)
                               ELSE JsonFail

JsonValue(s) ==
    IF s = <<>> THEN JsonFail
    ELSE IF Head(s) = "\"" THEN JsonScanString(Tail(s), <<>>)
    ELSE IF Head(s) \in Digits THEN JsonNumber(s)
    ELSE IF Head(s) = "{"
         THEN IF Len(s) >= 2 /\ s[2] = "}"
              THEN [ok |-> TRUE, kind |-> "object", val |-> <<>>, rest |-> SubSeq(s, 3, Len(s))]
              ELSE JsonMembersFrom(Tail(s), <<>>)
    ELSE JsonFail

\* JSON.parse(text): [ok |-> TRUE, kind, val], or [ok |-> FALSE] for the
\* SyntaxError
JSONParse(text) ==
    LET v == JsonValue(text)
    IN  IF v.ok /\ v.rest = <<>> THEN [ok |-> TRUE, kind |-> v.kind, val |-> v.val]
        ELSE JsonFail

\* ---- the request handler -----------------------------------------------

M3U8_PROXY == <<"/","m","3","u","8","-","p","r","o","x","y">>
TS_PROXY == <<"/","t","s","-","p","r","o","x","y">>
HEADERS == <<"h","e","a","d","e","r","s">>

\* parseURL(req.url.slice(1)).hostname for a req.url that is a path without
\* scheme or port: the text between the leading '/' and the next '/' or '?'
HostnameOf(url) ==
    LET rest == Tail(url)
        stops == {i \in 1..Len(rest) : rest[i] \in {"/", "?"}}
    IN  IF stops = {} THEN rest
        ELSE SubSeq(rest, 1, (CHOOSE i \in stops : \A j \in stops : i <= j) - 1)

\* isValidHostName(hostname), for the modelled names: a name with a
\* top-level domain is one, a bare word is none
isValidHostName(hostname) == Includes(hostname, <<".">>)

\* The try block of a relay route: the headers object, or the error caught
RelayHeaders(url) ==
    LET headersString == SearchParamsGet(url, HEADERS)
    IN  IF ~Truthy(headersString)
        THEN [ok |-> TRUE, headers |-> [ok |-> TRUE, kind |-> "object", val |-> <<>>]]
        ELSE LET decoded == DecodeURIComponent(headersString)
             IN  IF ~decoded.ok THEN [ok |-> FALSE, message |-> "URI malformed"]
                 ELSE IF ~JSONParse(decoded.val).ok
                      THEN [ok |-> FALSE, message |-> "JSON.parse SyntaxError message"]
                 ELSE [ok |-> TRUE, headers |-> JSONParse(decoded.val)]

\* withCORS(headers, request): the names of the headers with those of the
\* CORS headers added
ALLOW_ORIGIN == "access-control-allow-origin"
withCORS(headers) == headers \cup {ALLOW_ORIGIN}

\* cors_headers, the headers object of res.writeHead(status, cors_headers);
\* res.writeHead(status) sends none of them
cors_headers == withCORS({})

\* The response to a request to /m3u8-proxy (proxy = "proxyM3U8") or to
\* /ts-proxy (proxy = "proxyTs")
RelayRoute(req, proxy) ==
    LET h == RelayHeaders(req.url)
        proxiedUrl == getRawParamValueFromRequest(req.url, URL)
    IN  IF ~h.ok
        THEN [stage |-> "responded", req |-> req, status |-> 500, body |-> h.message,
              sent |-> {}, called |-> "none"]
        ELSE IF ~proxiedUrl.ok
        THEN [stage |-> "threw", req |-> req, called |-> "none"]
        ELSE [stage |-> "handed", req |-> req, called |-> proxy,
              target |-> IF proxiedUrl.val = Null THEN <<>> ELSE proxiedUrl.val,
              headers |-> h.headers]

\* The handler behind the OPTIONS test, up to the end of the relay block
Route(req) ==
    IF ~isValidHostName(HostnameOf(req.url))
    THEN IF Pathname(req.url) = M3U8_PROXY THEN RelayRoute(req, "proxyM3U8")
         ELSE IF Pathname(req.url) = TS_PROXY THEN RelayRoute(req, "proxyTs")
         ELSE [stage |-> "responded", req |-> req, status |-> 404,
               body |-> "Invalid host", sent |-> cors_headers, called |-> "none"]
    ELSE [stage |-> "passed", req |-> req, called |-> "none"]

\* A handler that routes every request, whatever its method
RouteAlways(req) == Route(req)

\* The request handler up to the end of the relay block
Respond(req) ==
    IF req.method = "OPTIONS"
    THEN [stage |-> "responded", req |-> req, status |-> 200, body |-> "",
          sent |-> cors_headers, called |-> "none"]
    ELSE Route(req)

\* Raw (still percent-encoded) values of the headers parameter: JSON objects
\* encoded once, as the addon writes them, and encoded twice; texts that are
\* no JSON; a JSON number; the empty value.
H_AGENT == << [k |-> <<"a">>, v |-> <<"b"," ","c">>] >>
H_PERCENT == << [k |-> <<"a">>, v |-> <<"1","%">>] >>

RawHeaderValues ==
    { EncodeURIComponent(JSONStringify(h)) : h \in {<<>>, H_REFERER, H_AGENT, H_PERCENT} }
    \cup { EncodeURIComponent(EncodeURIComponent(JSONStringify(h))) : h \in {<<>>, H_REFERER} }
    \cup { <<>>, <<"1">>, <<"x">>, <<"%","7","B","x">>, <<"%","2","5">>,
           <<"{","}">>, <<"%","7","B","%","2","2","a","%","2","2","%","7","D">> }

RawUrlValues ==
    { EncodeURIComponent(<<"h",":","/","/","u","/","a",".","m","3","u","8">>),
      <<"a","+","b">>, <<"%">>, <<>> }

\* The query string of a request: the url parameter, then the headers one
QueryOf(u, h) ==
    LET params == (IF u = Null THEN <<>> ELSE << <<"u","r","l","=">> \o u >>)
                  \o (IF h = Null THEN <<>> ELSE << HEADERS \o <<"=">> \o h >>)
    IN  IF params = <<>> THEN <<>>
        ELSE <<"?">> \o params[1]
             \o (IF Len(params) > 1 THEN <<"&">> \o params[2] ELSE <<>>)

RelayPaths == {M3U8_PROXY, TS_PROXY, <<"/","o","t","h","e","r">>, <<"/","a",".","i","o">>}

RelayRequests ==
    { [method |-> m, url |-> p \o QueryOf(u, h)] :
        m \in {"GET", "OPTIONS"}, p \in RelayPaths,
        u \in RawUrlValues \cup {Null}, h \in RawHeaderValues \cup {Null} }

InitRelay ==
    /\ env \in [disableProxy : {FALSE}, production : {TRUE}]
    /\ relay \in {[stage |-> "request", req |-> r] : r \in RelayRequests}
    /\ norm = NormIdle
    /\ uproxy = ProxyIdle
    /\ HandlerIdle

\* corsAnywhere as getHandler leaves it when options sets nothing: no
\* required header, empty origin lists, no rate limit. requireHeader is the
\* set of the lower-cased names (null is the empty set) and rateLimited the
\* set of origins checkRateLimit has a message for.
DefaultOptions ==
    [requireHeader |-> {}, originBlacklist |-> {}, originWhitelist |-> {},
     rateLimited |-> {}]

\* The options the server was created with
OptionsOf(r) == IF "options" \in DOMAIN r THEN r.options ELSE DefaultOptions

\* req.headers.origin || "", and the names of the request's headers
RequestOrigin(req) == IF "origin" \in DOMAIN req THEN req.origin ELSE ""
HeaderNames(req) ==
    (IF "names" \in DOMAIN req THEN req.names ELSE {})
    \cup (IF "origin" \in DOMAIN req THEN {"origin"} ELSE {})

\* The handler behind the relay block: the required-header test, the origin
\* blacklist and whitelist, the rate limit, then proxyRequest
Checks(options, req) ==
    LET origin == RequestOrigin(req)
        refuse(status, text, check) ==
            [stage |-> "responded", req |-> req, status |-> status, body |-> text,
             sent |-> cors_headers, called |-> "none", refusedBy |-> check, checked |-> TRUE]
    IN  IF options.requireHeader # {} /\ options.requireHeader \cap HeaderNames(req) = {}
        THEN refuse(400, "Missing required request header", "requireHeader")
        ELSE IF origin \in options.originBlacklist
        THEN refuse(403, "blacklisted", "originBlacklist")
        ELSE IF options.originWhitelist # {} /\ origin \notin options.originWhitelist
        THEN refuse(403, "not whitelisted", "originWhitelist")
        ELSE IF origin \in options.rateLimited
        THEN refuse(429, "too many requests", "checkRateLimit")
        ELSE [stage |-> "proxied", req |-> req, called |-> "proxyRequest", checked |-> TRUE]

\* A handler whose checks refuse a request before the relay block's answer
\* to it is used
ChecksFirst(options, r) ==
    LET c == Checks(options, r.req)
    IN  IF r.req.method # "OPTIONS" /\ c.stage = "responded" THEN c
        ELSE IF r.stage = "passed" THEN c ELSE r

\* What follows the relay block: a request the block answered or handed on
\* is done, any other goes through the checks
BehindRelay(options, r) ==
    IF r.stage = "passed" THEN Checks(options, r.req) ELSE r

\* The request handler: the relay block, and behind it the checks
Handle(options, req) ==
    BehindRelay(options, Respond(req)) @@ [options |-> options]

\* The request handler runs on the request.
HandleRequest ==
    /\ relay.stage = "request"
    /\ relay' = Handle(OptionsOf(relay), relay.req)
    /\ UNCHANGED <<env, uproxy, handlerVars, norm>>

NextRelay == HandleRequest

SpecRelay == InitRelay /\ [][NextRelay]_vars

\* The headers parameter of a request, as the query string carries it
HeadersParam(req) == SearchParamsGet(req.url, HEADERS)

IsRelayRoute(req) == Pathname(req.url) \in {M3U8_PROXY, TS_PROXY}

\* C9: a GET request to /m3u8-proxy or /ts-proxy whose headers parameter is
\* not valid JSON is answered with status 500 and the parse error message,
\* and neither proxyM3U8 nor proxyTs is called.
C9_MalformedHeadersRejected ==
    ( /\ relay.stage \notin {"idle", "request"}
      /\ relay.req.method = "GET"
      /\ IsRelayRoute(relay.req)
      /\ HeadersParam(relay.req) # Null
      /\ ~JSONParse(HeadersParam(relay.req)).ok )
    => /\ relay.stage = "responded"
       /\ relay.status = 500
       /\ relay.body \in {"URI malformed", "JSON.parse SyntaxError message"}
       /\ relay.called = "none"

\* C11: when every attempt of fetchWithRetry fails, the error it throws is
\* the error of the final attempt, not of an earlier one, and nothing is
\* returned.
C11_LastErrorSurfaced ==
    (pc \in RetryStages /\ phase = "threw") =>
        /\ Len(fr.errors) = MAX_RETRIES
        /\ fr.lastError = [attempt |-> MAX_RETRIES, kind |-> fr.errors[MAX_RETRIES]]
        /\ fr.lastError.kind \in {"http", "net"}
        /\ ~ENABLED XprimeBody
        /\ ~ENABLED RezSearchBody /\ ~ENABLED RezTransBody /\ ~ENABLED RezStreamBody

\* All attempts failed, the last one differently from the first.
C11_Witness ==
    /\ pc = "rstream"
    /\ phase = "threw"
    /\ fr.errors = <<"http", "http", "net">>
    /\ fr.lastError.kind = "net"

StreamsOf(streams, origin) == SelectSeq(streams, LAMBDA st : st.origin = origin)

\* C12: after a reply with a success status whose body is not valid JSON
\* (xprime.tv reply, HDRezka manifest reply) the handler has left that stage,
\* in which alone requests go to that upstream for it, and the provider has
\* no stream in the merge buffer or in the result.
C12_MalformedBodyNotRetried ==
    /\ "xprime" \in malformed =>
          /\ pc \in {"rsearch", "rtrans", "rstream", "done"}
          /\ "xprime" \in failed
          /\ StreamsOf(allStreams, "xprime") = <<>>
          /\ pc = "done" => StreamsOf(result.streams, "xprime") = <<>>
    /\ "rstream" \in malformed =>
          /\ pc = "done"
          /\ ~ENABLED FetchAttempt
          /\ "rezka" \in failed
          /\ StreamsOf(result.streams, "rezka") = <<>>

\* Both replies were malformed after a first attempt that succeeded, and the
\* main API contributed the result.
C12_Witness ==
    /\ pc = "done"
    /\ malformed = {"xprime", "rstream"}
    /\ Len(result.streams) > 0
    /\ result.cacheMaxAge = CACHE_MAX_AGE

\* A provider's first network call is awaited
InFlight(p) ==
    \/ p = "main" /\ pc = "main"
    \/ p = "xprime" /\ pc = "xprime" /\ phase = "fetch"
    \/ p = "rezka" /\ pc \in {"rsearch", "rtrans", "rstream"} /\ phase = "fetch"

\* A provider's first network call has been issued
CallStarted(p) == InFlight(p) \/ p \in asked

\* C13: within one request the provider adapters run concurrently: while
\* the network call of one adapter is awaited, the calls of the other
\* adapters have been started too, none waits for it to succeed or fail.
C13_AdaptersRunConcurrently ==
    (\E p \in Providers : InFlight(p)) => \A q \in Providers : CallStarted(q)

\* C14: in a request that passed the metadata lookup, no ranking has run and
\* nothing is returned while an adapter is still to run, and when the result
\* is returned every adapter was invoked, also when an earlier one had
\* produced streams.
C14_RankingAfterAllAdapters ==
    /\ (pc \in {"main"} \cup RetryStages) =>
          /\ result = NoResult
          /\ merged = <<>>
          /\ \A k \in 1..Len(allStreams) : allStreams[k].ref = k
    /\ RanProviders =>
          /\ asked = Providers
          /\ \A p \in Providers : ~InFlight(p)
          /\ result.streams = SortStreams(merged)

\* The main API had produced streams, the other two adapters ran and added
\* theirs, and the sort reordered the list.
C14_Witness ==
    /\ RanProviders
    /\ asked = Providers
    /\ \A p \in Providers : StreamsOf(merged, p) # <<>>
    /\ merged[1].origin = "main"
    /\ result.streams[1].origin = "xprime"

\* C16: the order of the result is fixed by the replies alone: the merged
\* list is the main API's streams, then xprime.tv's, then HDRezka's, each in
\* reply order, whenever the calls completed and however many attempts they
\* took, and the result is that list sorted.
C16_OrderFixedByReplies ==
    RanProviders =>
        /\ merged = StreamsOf(merged, "main") \o StreamsOf(merged, "xprime")
                    \o StreamsOf(merged, "rezka")
        /\ \A k \in 1..Len(merged) : merged[k].ref = k
        /\ result.streams = SortStreams(merged)
        /\ \A i, j \in 1..Len(result.streams) :
              i < j => CompareStreams(result.streams[i], result.streams[j]) <= 0

\* Streams of two providers after calls that needed different numbers of
\* attempts
C16_Witness ==
    /\ RanProviders
    /\ StreamsOf(merged, "main") # <<>>
    /\ StreamsOf(merged, "xprime") # <<>>
    /\ result.streams # merged
    /\ fr = FrIdle
    /\ failed = {"rezka"}

\* The handler with an upstream that may never answer the main API call:
\* every other awaited call settles and every timer fires.
SpecMainHangs ==
    /\ Init
    /\ [][Next]_vars
    /\ WF_vars(HandlerStart)
    /\ WF_vars(ConvertImdbToTmdb)
    /\ WF_vars(FetchDetails)
    /\ WF_vars(FetchAttempt)
    /\ WF_vars(BackoffElapsed)
    /\ WF_vars(XprimeBody)
    /\ WF_vars(XprimeFailed)
    /\ WF_vars(RezSearchBody)
    /\ WF_vars(RezTransBody)
    /\ WF_vars(RezStreamBody)
    /\ WF_vars(RezFailed)

\* C15: each adapter call has a deadline of its own: also when a provider's
\* upstream call never completes, the handler eventually returns.
C15_HandlerEventuallyReturns == <>(pc = "done")

(***************************************************************************)
(* A rewritten stream URL on its way from the addon to the relay           *)
(***************************************************************************)

H_PLUS == << [k |-> <<"a">>, v |-> <<"1","+","2">>] >>
H_AMP == << [k |-> <<"a">>, v |-> <<"x","&","y","=","z">>] >>
H_ESCAPED == << [k |-> <<"a">>, v |-> <<"b","%","2","0","c">>] >>
H_TWO == H_REFERER \o << [k |-> <<"U">>, v |-> <<"m","/","5"," ","(","X",")">>] >>

\* Header maps of a source: their values are plain, or contain a space, a
\* '+', an '&', an '=', a '%'.
TripHeaders == {<<>>, H_REFERER, H_AGENT, H_PLUS, H_AMP, H_PERCENT, H_ESCAPED, H_TWO}

TripFiles ==
    { [file |-> <<"h",":","/","/","u","/","a",".","m","3","u","8">>],
      [file |-> <<"h",":","/","/","u","/","v","?","t","=","1","&","q","=","2">>, type |-> HLS] }

TripSources ==
    { [provider |-> VIDSRC, files |-> <<f>>, headers |-> h] :
          f \in TripFiles, h \in TripHeaders }

InitTrip ==
    /\ env \in [disableProxy : BOOLEAN, production : BOOLEAN]
    /\ norm \in {[stage |-> "input", source |-> s] : s \in TripSources}
    /\ relay = RelayIdle
    /\ uproxy = ProxyIdle
    /\ HandlerIdle

\* The player requests the url of the stream: the relay receives a GET whose
\* req.url is the url behind m3u8ProxyBaseUrl.
PlayStream ==
    /\ norm.stage = "built"
    /\ relay.stage = "idle"
    /\ StartsWith(norm.streams[1].url, m3u8ProxyBaseUrl \o PROXY_PATH)
    /\ relay' = [stage |-> "request",
                 req |-> [method |-> "GET",
                          url |-> SubSeq(norm.streams[1].url, Len(m3u8ProxyBaseUrl) + 1,
                                         Len(norm.streams[1].url))]]
    /\ UNCHANGED <<env, uproxy, handlerVars, norm>>

NextTrip ==
    \/ Normalize
    \/ PlayStream
    \/ HandleRequest

SpecTrip == InitTrip /\ [][NextTrip]_vars

\* The entries of a parsed JSON object as a headers map
ParsedMap(parsed) == [i \in 1..Len(parsed.val) |-> [k |-> parsed.val[i].k, v |-> parsed.val[i].v]]

\* C17: the headers map a source carries survives the trip through the
\* rewritten URL: once the relay has handled the request for the stream's
\* url, it hands proxyM3U8 a headers object equal to the source's map, for
\* every value, also one with '%', '+' or '&'.
C17_HeadersRoundTrip ==
    (relay.stage \notin {"idle", "request"})
    => /\ relay.stage = "handed"
       /\ relay.headers.kind = "object"
       /\ ParsedMap(relay.headers) = norm.source.headers

\* file.type === 'hls' || file.file.includes('.m3u8'), on a file that may
\* lack its URL
Adaptive(file) ==
    Field(file, "type") = HLS \/ ("file" \in DOMAIN file /\ Includes(file.file, M3U8))

\* The url of a stream points at the relay's /m3u8-proxy endpoint
AtRelay(url) == url # Undefined /\ StartsWith(url, m3u8ProxyBaseUrl \o PROXY_PATH)

\* The files of the normalized source with the urls of their streams
BuiltPairs ==
    {[file |-> Unwrap(norm.source).files[i], url |-> norm.streams[i].url] :
        i \in 1..Len(norm.streams)}

HasCors(response) == ALLOW_ORIGIN \in response.sent

\* C19: every OPTIONS request, whatever its path and query, is answered
\* with status 200, the CORS headers and an empty body; nothing is routed,
\* no proxy function is called and no exception escapes.
C19_PreflightAnswered ==
    (relay.stage \notin {"idle", "request"} /\ relay.req.method = "OPTIONS")
    => /\ relay.stage = "responded"
       /\ relay.status = 200
       /\ relay.body = ""
       /\ HasCors(relay)
       /\ relay.called = "none"

\* An OPTIONS request to /m3u8-proxy whose headers parameter is no JSON
\* (a GET of it is answered 500) has been answered.
C19_Witness ==
    /\ relay.stage = "responded"
    /\ relay.req.method = "OPTIONS"
    /\ Pathname(relay.req.url) = M3U8_PROXY
    /\ HeadersParam(relay.req) # Null
    /\ ~JSONParse(HeadersParam(relay.req)).ok
    /\ relay.status = 200

\* C20: every response the handler itself writes for a GET /m3u8-proxy
\* request, its error responses included, carries the CORS headers.
C20_RelayResponsesCarryCors ==
    ( /\ relay.stage = "responded"
      /\ relay.req.method = "GET"
      /\ Pathname(relay.req.url) = M3U8_PROXY )
    => HasCors(relay)

\* A text that is the decimal numeral of a positive integer
IsPositiveInteger(text) ==
    /\ text # Undefined
    /\ Len(text) > 0
    /\ \A i \in 1..Len(text) : text[i] \in Digits
    /\ \E i \in 1..Len(text) : text[i] # "0"

\* The handler has called convertImdbToTmdb
LookupIssued == pc \notin {"start", "done"} \/ (pc = "done" /\ tmdbId # Undefined)

\* C21: for a series request the ID lookup is issued only when the season
\* and the episode of the id are both positive integers; for any other
\* season or episode the handler returns the empty set without a lookup.
C21_SeriesLookupNeedsPositiveNumbers ==
    (args.type = "series" /\ pc # "start"
       /\ ~(IsPositiveInteger(Part(args.id, 2)) /\ IsPositiveInteger(Part(args.id, 3))))
    => /\ ~LookupIssued
       /\ pc = "done"
       /\ result.streams = <<>>

(***************************************************************************)
(* Universal proxy (src/universal-proxy.js, the app.all('/*') handler)     *)
(***************************************************************************)

TARGET_URL == "target_url"

\* The request headers the handler deletes before forwarding
DroppedRequestHeaders ==
    {"host", "x-forwarded-for", "x-forwarded-host", "x-forwarded-proto",
     "x-forwarded-port", "x-request-start", "x-request-id", "via"}

\* req.query[name], or undefined; query is the sequence of [name, value] pairs
QueryGet(query, name) ==
    IF \E i \in 1..Len(query) : query[i].name = name
    THEN query[CHOOSE i \in 1..Len(query) :
                  query[i].name = name /\ \A j \in 1..(i - 1) : query[j].name # name].value
    ELSE Undefined

\* new URL(text) succeeds: the text has a scheme followed by "://" and a host
SCHEME_SEP == <<":","/","/">>
IsAbsoluteUrl(text) ==
    \E i \in 2..Len(text) :
        /\ \A j \in 1..(i - 1) : text[j] \in LowerCase
        /\ Len(text) >= i + 3
        /\ SubSeq(text, i, i + 2) = SCHEME_SEP
        /\ text[i + 3] \notin {"/", "?", "#"}

\* new URL(text).origin: the text up to the first '/' behind the host
OriginOf(text) ==
    LET start == (CHOOSE i \in 2..Len(text) : SubSeq(text, i, i + 2) = SCHEME_SEP
                     /\ \A j \in 2..(i - 1) : SubSeq(text, j, j + 2) # SCHEME_SEP) + 3
        stops == {i \in start..Len(text) : text[i] \in {"/", "?", "#"}}
    IN  IF stops = {} THEN text
        ELSE SubSeq(text, 1, (CHOOSE i \in stops : \A j \in stops : i <= j) - 1)

\* The handler up to its await: the two 400 answers, or the fetch it starts
\* (targetUrl with the request's path and its query without target_url, the
\* headers without the dropped ones, the body for a method with one)
StartProxy(req) ==
    LET targetUrlString == QueryGet(req.query, TARGET_URL)
    IN  IF ~Truthy(targetUrlString)
        THEN [stage |-> "responded", req |-> req, status |-> 400, headers |-> {},
              body |-> [kind |-> "error", error |-> "target_url query parameter is required"]]
        ELSE IF ~IsAbsoluteUrl(targetUrlString)
        THEN [stage |-> "responded", req |-> req, status |-> 400, headers |-> {},
              body |-> [kind |-> "error", error |-> "Invalid target_url format"]]
        ELSE [stage |-> "fetching", req |-> req,
              target |-> [origin |-> OriginOf(targetUrlString), pathname |-> req.path,
                          search |-> SelectSeq(req.query, LAMBDA q : q.name # TARGET_URL)],
              method |-> req.method,
              headers |-> {h \in req.headers : h.name \notin DroppedRequestHeaders},
              withBody |-> req.method \notin {"GET", "HEAD"}]

TRANSFER_ENCODING == <<"t","r","a","n","s","f","e","r","-","e","n","c","o","d","i","n","g">>
CONTENT_ENCODING == <<"c","o","n","t","e","n","t","-","e","n","c","o","d","i","n","g">>

\* A test of the header name as it is written
DroppedAsWritten(name) == name \in {TRANSFER_ENCODING, CONTENT_ENCODING}

\* name.toLowerCase() is 'transfer-encoding' or 'content-encoding'
Dropped(name) == ToLower(name) \in {TRANSFER_ENCODING, CONTENT_ENCODING}

\* The status of the answer to a failed fetch, whatever the error
InternalErrorAlways(error) == 500

\* The status of the answer to a failed fetch: if (error.code) 502 else 500
FailureStatus(error) == IF "code" \in DOMAIN error /\ error.code # "" THEN 502 ELSE 500

\* The answer once the fetch has settled: the upstream's status and headers
\* with the body piped, or the answer of the catch block
SettleProxy(req, outcome) ==
    IF outcome.kind = "response"
    THEN [stage |-> "responded", req |-> req, status |-> outcome.status,
          headers |-> {h \in outcome.headers : ~Dropped(h.name)},
          body |-> [kind |-> "piped"], upstream |-> outcome]
    ELSE [stage |-> "responded", req |-> req, status |-> FailureStatus(outcome),
          headers |-> {},
          body |-> IF FailureStatus(outcome) = 502
                   THEN [kind |-> "error", error |-> "Could not connect to target",
                         code |-> outcome.code]
                   ELSE [kind |-> "error",
                         error |-> "Internal server error while fetching from target"],
          upstream |-> outcome]

\* ---- requests and upstream answers ------------------------------------

T_ORIGIN == <<"h",":","/","/","u">>
T_WITHPATH == <<"h",":","/","/","u","/","e","?","k">>
T_RELATIVE == <<"u","/","e">>

ProxyQueries ==
    LET q == [name |-> "q", value |-> <<"T">>]
    IN  {<<>>, <<q>>}
        \cup UNION { { <<[name |-> TARGET_URL, value |-> t]>>,
                       <<q, [name |-> TARGET_URL, value |-> t]>> } :
                     t \in {T_ORIGIN, T_WITHPATH, T_RELATIVE, <<>>} }

ProxyRequestHeaders ==
    { {[name |-> "host", value |-> "p"], [name |-> "accept", value |-> "a"]},
      {[name |-> "host", value |-> "p"], [name |-> "via", value |-> "r"],
       [name |-> "x-forwarded-for", value |-> "c"], [name |-> "cookie", value |-> "s"]} }

ProxyRequests ==
    { [method |-> m, path |-> <<"/","s">>, query |-> q, headers |-> h] :
        m \in {"GET", "POST"}, q \in ProxyQueries, h \in ProxyRequestHeaders }

\* Response headers an upstream sends, their names in whatever case the
\* fetch library hands them to the callback
UpstreamHeaderPool ==
    { [name |-> <<"c","o","n","t","e","n","t","-","t","y","p","e">>, value |-> "t"],
      [name |-> TRANSFER_ENCODING, value |-> "chunked"],
      [name |-> <<"C","o","n","t","e","n","t","-","E","n","c","o","d","i","n","g">>,
       value |-> "gzip"],
      [name |-> <<"X","-","A">>, value |-> "1"] }

SystemCodes == {"ECONNREFUSED", "ECONNRESET", "ENOTFOUND"}

\* What the fetch can settle with: a response of any status, a system error
\* with its code, or an error without a code (a timeout, a TypeError)
FetchOutcomes ==
    { [kind |-> "response", status |-> st, headers |-> hs] :
        st \in {200, 302, 404, 503}, hs \in SUBSET UpstreamHeaderPool }
    \cup { [kind |-> "error", code |-> c] : c \in SystemCodes }
    \cup { [kind |-> "error", type |-> t] : t \in {"request-timeout", "TypeError"} }

InitProxy ==
    /\ env \in [disableProxy : {FALSE}, production : {TRUE}]
    /\ uproxy \in {[stage |-> "request", req |-> r] : r \in ProxyRequests}
    /\ norm = NormIdle
    /\ relay = RelayIdle
    /\ HandlerIdle

\* The handler runs up to the await of the fetch, or answers 400.
ProxyReceive ==
    /\ uproxy.stage = "request"
    /\ uproxy' = StartProxy(uproxy.req)
    /\ UNCHANGED <<env, handlerVars, norm, relay>>

\* The fetch settles and the handler answers.
ProxyFetchSettles ==
    /\ uproxy.stage = "fetching"
    /\ \E outcome \in FetchOutcomes : uproxy' = SettleProxy(uproxy.req, outcome)
    /\ UNCHANGED <<env, handlerVars, norm, relay>>

NextProxy ==
    \/ ProxyReceive
    \/ ProxyFetchSettles

SpecProxy == InitProxy /\ [][NextProxy]_vars

\* The fetch of the request was made and has settled
FetchSettled == uproxy.stage = "responded" /\ "upstream" \in DOMAIN uproxy

\* C22: when the upstream fetch fails with an error that carries a system
\* code (ECONNREFUSED, ECONNRESET, ...) the answer has status 502 and names
\* the code in its body; when it fails in any other way the answer has
\* status 500.
C22_FetchFailureStatus ==
    (FetchSettled /\ uproxy.upstream.kind = "error")
    => IF "code" \in DOMAIN uproxy.upstream
       THEN /\ uproxy.status = 502
            /\ uproxy.body.kind = "error"
            /\ uproxy.body.code = uproxy.upstream.code
       ELSE uproxy.status = 500

\* A fetch the upstream refused has been answered.
C22_Witness ==
    /\ FetchSettled
    /\ uproxy.upstream.kind = "error"
    /\ "code" \in DOMAIN uproxy.upstream
    /\ uproxy.upstream.code = "ECONNREFUSED"
    /\ uproxy.status = 502

\* C28: when the upstream fetch succeeds, the answer has the upstream's
\* status and every upstream response header except transfer-encoding and
\* content-encoding, whatever the case of their names; these two are never
\* copied to the answer.
C28_StatusAndHeadersForwarded ==
    (FetchSettled /\ uproxy.upstream.kind = "response")
    => /\ uproxy.status = uproxy.upstream.status
       /\ \A h \in uproxy.upstream.headers :
             ToLower(h.name) \notin {TRANSFER_ENCODING, CONTENT_ENCODING} => h \in uproxy.headers
       /\ \A h \in uproxy.headers :
             ToLower(h.name) \notin {TRANSFER_ENCODING, CONTENT_ENCODING}

\* An upstream answer with status 404 that carried Content-Encoding, written
\* with capitals, and other headers has been forwarded.
C28_Witness ==
    /\ FetchSettled
    /\ uproxy.upstream.kind = "response"
    /\ uproxy.upstream.status = 404
    /\ \E h \in uproxy.upstream.headers : h.name # ToLower(h.name) /\ Dropped(h.name)
    /\ uproxy.headers # {}

(***************************************************************************)
(* The quality inference of processStreamingSource on its own              *)
(***************************************************************************)

\* Names with the token of one class, of two classes, of none
QualityNames ==
    NormNames \cup { <<"3","6","0","-","1","0","8","0">>, <<"s","d","7","2","0">>,
                     <<"f","h","d","4","k">> }

\* Files with and without a declared quality (a label, another text, the
\* empty text), a URL, a declared type
QualityFiles ==
    LET typed(f) == {f} \cup {f @@ [type |-> t] : t \in {HLS, MP4}}
        rated(f) == {f} \cup {f @@ [quality |-> q] : q \in {<<>>, <<"c","a","m">>, L4K, L720}}
        urls == { <<"/">> \o n \o e : n \in QualityNames, e \in {M3U8, DOT_MP4} }
    IN  UNION { rated(g) : g \in UNION { typed([file |-> u]) : u \in urls }
                                   \cup typed([lang |-> <<"e","n">>]) }

InitQuality ==
    /\ env \in [disableProxy : BOOLEAN, production : {TRUE}]
    /\ norm \in {[stage |-> "input", source |-> [provider |-> VIDSRC, files |-> <<f>>]] :
                    f \in QualityFiles}
    /\ relay = RelayIdle
    /\ uproxy = ProxyIdle
    /\ HandlerIdle

NextQuality == Normalize

SpecQuality == InitQuality /\ [][NextQuality]_vars

\* The pattern class k matches the file's URL
ClassMatches(file, k) ==
    IncludesAny(ToLower(TextOf(Field(file, "file"))), qualityPatterns[k].alts)

MatchingBoth(candidates) ==
    SelectSeq(candidates, LAMBDA c : c.year = ReleaseYear.val /\ c.type = MediaType)

\* C24: the search stage returns the first candidate that matches the
\* release year and the kind; when none matches both, the first candidate of
\* the unfiltered list; when there is no candidate, or the search request
\* failed after its retries, it returns null and the handler still resolves.
C24_SearchPicksFirstMatchThenFirst ==
    /\ rez.search = "body" =>
          rez.found = IF MatchingBoth(rez.candidates) # <<>>
                      THEN <<MatchingBoth(rez.candidates)[1]>>
                      ELSE IF rez.candidates # <<>> THEN <<rez.candidates[1]>>
                      ELSE <<>>
    /\ rez.search = "failed" =>
          /\ rez.found = <<>>
          /\ pc = "done"
          /\ "streams" \in DOMAIN result

\* A search whose second candidate is the first to match year and kind
\* returned that candidate.
C24_Witness ==
    /\ rez.search = "body"
    /\ Len(rez.candidates) = 2
    /\ MatchingBoth(rez.candidates) # <<>>
    /\ rez.found = <<rez.candidates[2]>>

RezkaStages == {"rsearch", "rtrans", "rstream"}

\* The streams of a list that did not come from HDRezka
StreamsOfOthers(streams) == SelectSeq(streams, LAMBDA st : st.origin # "rezka")

\* The order of the HDRezka stages: the detail page is fetched only with a
\* candidate that has an id, the manifest only with a translator id, and a
\* stage that found nothing or failed is followed by no later stage.
RezkaStagesInOrder ==
    /\ (pc = "rtrans" \/ rez.detail # "none")
          => /\ rez.search = "body"
             /\ rez.found # <<>>
             /\ Truthy(rez.found[1].id)
    /\ (pc = "rstream" \/ rez.manifest # "none")
          => /\ rez.detail = "body"
             /\ rez.translatorId # <<>>
    /\ (rez.search = "failed" \/ (rez.search = "body" /\ rez.found = <<>>)
          \/ (rez.search = "body" /\ rez.found # <<>> /\ ~Truthy(rez.found[1].id)))
          => /\ rez.detail = "none" /\ rez.manifest = "none"
             /\ pc = "done"
    /\ (rez.detail = "failed" \/ (rez.detail = "body" /\ rez.translatorId = <<>>))
          => /\ rez.manifest = "none"
             /\ pc = "done"
    /\ (pc = "done" /\ rez.manifest # "body") => StreamsOf(result.streams, "rezka") = <<>>

\* The step that ends the HDRezka block keeps the streams of the other
\* providers, and adds none when a stage found nothing or failed.
RezkaEndKeepsOthers ==
    (pc \in RezkaStages /\ pc' = "done")
    => /\ StreamsOfOthers(merged') = allStreams
       /\ rez'.manifest # "body" => merged' = allStreams
       /\ result'.streams = SortStreams(merged')

\* C25: in the HDRezka pipeline the detail page is fetched only after the
\* search yielded a candidate with a non-empty id and the manifest is
\* posted for only after the translator stage yielded an id; a stage that
\* finds nothing or fails stops the later stages, leaves HDRezka's
\* contribution empty and leaves the other providers' streams in the result.
C25_StagesGateEachOther == []RezkaStagesInOrder /\ [][RezkaEndKeepsOthers]_vars

\* The translator stage found no id on the page it fetched; the handler
\* returned the streams of the main API and none of HDRezka.
C25_Witness ==
    /\ pc = "done"
    /\ rez.detail = "body"
    /\ rez.translatorId = <<>>
    /\ rez.manifest = "none"
    /\ StreamsOf(result.streams, "main") # <<>>
    /\ StreamsOf(result.streams, "rezka") = <<>>

\* C26: the translator stage returns '238' when the detail page has the
\* original-plus-subtitles marker; otherwise, when the page has the init
\* call of the kind for the item id, the variant id of that call; and null,
\* without an error, when the page has neither.
C26_TranslatorFromMarkerOrInitCall ==
    rez.detail = "body" =>
        IF rez.page.marker238 THEN rez.translatorId = TRANSLATOR_238
        ELSE IF rez.page.initCall THEN rez.translatorId # <<>>
        ELSE rez.translatorId = <<>> /\ "rezka" \notin failed

\* C27: the wait after the k-th failed attempt of fetchWithRetry, k below
\* maxRetries, is RETRY_DELAY_MS * 2^(k-1) milliseconds (1000, then 2000),
\* and there is no wait after the final failed attempt.
C27_ExponentialBackoff ==
    pc \in RetryStages =>
        /\ Len(fr.waits) = IF Len(fr.errors) < MAX_RETRIES THEN Len(fr.errors)
                           ELSE MAX_RETRIES - 1
        /\ \A k \in 1..Len(fr.waits) : fr.waits[k] = RETRY_DELAY_MS * 2 ^ (k - 1)
        /\ \A k \in 1..Len(fr.waits) : fr.waits[k] = <<1000, 2000>>[k]
        /\ phase = "backoff" => Len(fr.waits) = fr.attempt
        /\ phase = "threw" => /\ Len(fr.errors) = MAX_RETRIES
                              /\ fr.waits = <<1000, 2000>>

\* All three attempts failed: the helper waited 1000 ms and 2000 ms and
\* threw without a third wait.
C27_Witness ==
    /\ pc = "rsearch"
    /\ phase = "threw"
    /\ Len(fr.errors) = 3
    /\ fr.waits = <<1000, 2000>>

(***************************************************************************)
(* The relay's front end under configured options                          *)
(***************************************************************************)

\* Origins: one on the blacklist, one that is rate limited, one the
\* whitelist names, one nobody names
GateOrigins == {"bad", "busy", "good", "other"}

GateOptions ==
    [requireHeader : {{}, {"x-requested-with"}},
     originBlacklist : {{}, {"bad"}},
     originWhitelist : {{}, {"good"}, {"*"}},
     rateLimited : {{}, {"busy"}}]

\* Requests to the two relay routes and to two other paths, with and
\* without an Origin and the header the options may require
GateRequests ==
    LET u == EncodeURIComponent(<<"h",":","/","/","u","/","a",".","m","3","u","8">>)
        base == { [method |-> "GET", url |-> p \o QueryOf(u, h)] :
                    p \in RelayPaths, h \in {Null, EncodeURIComponent(JSONStringify(H_REFERER))} }
        withOrigin(r) == {r} \cup {r @@ [origin |-> o] : o \in GateOrigins}
        withNames(r) == {r, r @@ [names |-> {"x-requested-with"}]}
    IN  UNION { withNames(q) : q \in UNION { withOrigin(r) : r \in base } }

InitGate ==
    /\ env \in [disableProxy : {FALSE}, production : {TRUE}]
    /\ relay \in {[stage |-> "request", req |-> r, options |-> o] :
                     r \in GateRequests, o \in GateOptions}
    /\ norm = NormIdle
    /\ uproxy = ProxyIdle
    /\ HandlerIdle

NextGate == HandleRequest

SpecGate == InitGate /\ [][NextGate]_vars

\* C29: a request for /m3u8-proxy or /ts-proxy is handed to the playlist
\* or the segment relay and none of the required-header, origin-blacklist,
\* origin-whitelist and rate-limit checks is applied to it, whatever the
\* options and the request's Origin.
C29_RelayRoutesBypassChecks ==
    (relay.stage \notin {"idle", "request"} /\ IsRelayRoute(relay.req))
    => /\ "checked" \notin DOMAIN relay
       /\ relay.stage = "handed"
       /\ relay.called = IF Pathname(relay.req.url) = M3U8_PROXY THEN "proxyM3U8" ELSE "proxyTs"

\* A request for /m3u8-proxy from a blacklisted Origin, without the
\* required header and outside the whitelist, was handed to proxyM3U8.
C29_Witness ==
    /\ relay.stage = "handed"
    /\ relay.called = "proxyM3U8"
    /\ RequestOrigin(relay.req) = "bad"
    /\ relay.options.originBlacklist = {"bad"}
    /\ relay.options.originWhitelist = {"good"}
    /\ relay.options.requireHeader # {}
    /\ HeaderNames(relay.req) \cap relay.options.requireHeader = {}

\* The metadata lookup yielded a title and a release year
HasMetadata == Truthy(title) /\ Truthy(year)

\* C30: when the ID lookup succeeded and the metadata lookup did not yield
\* both a title and a release year, the handler returns the empty set with
\* the short cache max-age and no provider is sent a request.
C30_NoMetadataShortCircuits ==
    /\ (pc \notin {"start", "find", "details", "done"} \/ asked # {})
          => Truthy(tmdbId) /\ HasMetadata
    /\ (pc = "done" /\ Truthy(tmdbId) /\ ~HasMetadata)
          => /\ result.streams = <<>>
             /\ result.cacheMaxAge = CACHE_MAX_AGE_EMPTY
             /\ asked = {}

\* The details reply had a title and no date: the handler returned the
\* empty set without asking a provider.
C30_Witness ==
    /\ pc = "done"
    /\ Truthy(tmdbId)
    /\ Truthy(title)
    /\ ~Truthy(year)
    /\ result = enrichCacheParams(<<>>)
    /\ asked = {}

====
